---------------------------- MODULE Spec2Model ----------------------------
(***************************************************************************)
(* Door Se Kaam: the screen streaming engine (server/screen_capture.py,    *)
(* the ws_screen handler of server/main.py) and the input command router   *)
(* with its Wayland helper bridge (server/input_handler.py, the ws_input   *)
(* handler of server/main.py).                                             *)
(*                                                                         *)
(* SpecStream is one /ws/screen connection: the ws_screen coroutine pulls  *)
(* frames from the stream_frames asynchronous generator of its own         *)
(* ScreenCapture object.  Times are in milliseconds.                       *)
(*                                                                         *)
(* SpecInput is the /ws/input connections of a Wayland session: every      *)
(* connection hands its commands to the module-level input_handler, whose  *)
(* WaylandInputBackend owns the helper process.  process_command is        *)
(* synchronous, so one command runs to its end before the next begins; the *)
(* calls start -> stop -> _send -> start nest, and the call stack is       *)
(* explicit.  Sensitivities are in tenths.                                 *)
(***************************************************************************)
EXTENDS Integers, Sequences, FiniteSets, TLC

None == "None"

(***************************************************************************)
(* Bounds of the model.                                                    *)
(***************************************************************************)
\* successful captures of one streaming session
MaxFrames == 5
\* control messages handled by one streaming session
MaxControl == 2
\* messages handled on the input connections, all connections together
MaxCommands == 2
\* frames of a run at one fixed capture latency
MaxSamples == 9
MaxScenarioFrames == 60
MaxSensCommands == 3
MaxIterations == 14
\* capture_frame calls followed on one capture object
MaxCaptures == 2
\* commands written to the helper of one ready bridge
MaxPairCommands == 5
\* login requests followed, and the time they are followed for (in ticks)
MaxLogins == 7
MaxClock == 1300
\* depth of the call stack at which a further call raises RecursionError
\* (the interpreter's recursion limit, scaled down)
RecursionLimit == 8

(***************************************************************************)
(* Program constants.                                                      *)
(***************************************************************************)
\* screen_capture.py:363 and :383, "if error_count > 10"
MaxErrors == 10
\* screen_capture.py:395, the sliding window of frame times
WindowSize == 30
\* screen_capture.py:397, no adaptation with fewer samples
MinSamples == 5
\* screen_capture.py:405, max(3, adaptive_fps - 1)
MinFps == 3
\* one second, in the model's time unit (screen_capture.py:401, 1.0 / fps)
Second == 1000
\* input_handler.py:78, the polls of the start handshake
PollBudget == 20
\* input_handler.py:283, the sensitivity bounds 0.1 and 5.0, in tenths
SensMin == 1
SensMax == 50
\* input_handler.py:259, the initial sensitivity 1.0, in tenths
SensDefault == 10
\* config.max_login_attempts and config.lockout_duration_seconds (config.py
\* 28-29); the clock of the model ticks twice a second
MaxLoginAttempts == 5
LockoutSeconds == 300
TicksPerSecond == 2
LockoutTicks == LockoutSeconds * TicksPerSecond

(***************************************************************************)
(* Inputs.                                                                 *)
(***************************************************************************)
\* fps a session is created with: int(query fps) or config.capture_fps
CreateFps == {2, 5}
\* values a set_fps message carries (data.get("fps", capture.fps) is not
\* validated: 0 is accepted)
ControlFps == {0, 2, 5}
Qualities == {50, 80}
Monitors == {0, 1}
\* capture latencies of one iteration
Latencies == {10, 400}
Backends == {"pipewire", "mss"}
\* the PipeWire node id the helper prints (NODE:42)
NodeId == "42"

VARIABLES
    \* ScreenCapture fields
    fps, quality, monitor, running, frame_times, adaptive_quality,
    adaptive_fps, pw_node_id, pw_session_proc, backend,
    \* stream_frames: its local error_count and where it is suspended
    error_count, gpc,
    \* ws_screen: where the coroutine is, how it ended, the connection
    wpc, ws_result, conn,
    \* the capture helper processes that are alive
    pw_live,
    \* history: why the generator finished, the quality the frame in hand was
    \* encoded at, consecutive failed acquisitions and the sleeps after them,
    \* successful captures and handled control messages, whether a helper
    \* was spawned, the control message ws_screen has handled since it last
    \* asked for a frame
    exit_reason, frame_quality, consec_fail, fail_sleeps, frames, controls,
    pw_spawned, data

streamVars == <<fps, quality, monitor, running, frame_times, adaptive_quality,
                adaptive_fps, pw_node_id, pw_session_proc, backend,
                error_count, gpc, wpc, ws_result, conn, pw_live,
                exit_reason, frame_quality, consec_fail, fail_sleeps, frames,
                controls, pw_spawned, data>>

VARIABLES
    \* WaylandInputBackend fields, and the state of the process that
    \* _process refers to: "alive", "dying" (it has closed its output and is
    \* exiting: poll() may or may not see it gone yet) or "exited"
    process, ready, proc_state,
    \* InputHandler fields
    sensitivity, drag_active,
    \* the call stack of the command being processed, the exception being
    \* propagated, the /ws/input connections
    stack, exc, conn_state,
    \* the input helper processes that are alive
    input_live,
    \* history: the command being processed or processed last, whether the
    \* bridge is marked not ready by a protocol violation, the last value a
    \* set_sensitivity stored and who sent it, the last value each
    \* connection sent in a set_sensitivity, messages handled, the connection
    \* whose command spawned the helper that _process refers to
    last, violation, sens_raw, sens_by, sens_own, commands, helper_owner

inputVars == <<process, ready, proc_state, sensitivity, drag_active, stack,
               exc, conn_state, input_live, last, violation, sens_raw,
               sens_by, sens_own, commands, helper_owner>>

VARIABLES
    \* the outcomes of the probes a backend selection runs, and the backend
    \* it has selected
    probes, selected,
    \* history: the stop call made last on one of the objects, and whether
    \* the object was stopped already
    stop_call

VARIABLES
    \* a key name given to the resolvers, and what _resolve_key,
    \* _resolve_modifier and resolve_keysym make of it
    key, x11_key, x11_mod, keysym

resolveVars == <<key, x11_key, x11_mod, keysym>>

VARIABLES
    \* the keyboard command the bridge has sent to the compositor helper,
    \* the helper's position in handling it, the key events it has still to
    \* emit and those it has emitted, the lines written on the two pipes for
    \* this command, and what _send returned
    kcmd, hpc, plan, events, wire, kresult

helperVars == <<kcmd, hpc, plan, events, wire, kresult>>

keyVars == <<resolveVars, helperVars>>

VARIABLES
    \* history of the router's set_sensitivity: the value given last, the
    \* factor before that command, how the command ended, and the number of
    \* commands handled
    sens_in, sens_before, sens_result, sens_count

sensVars == <<sens_in, sens_before, sens_result, sens_count>>

VARIABLES
    \* history: the start call made last on one of the two bridges and, for
    \* the capture session, the first status its helper prints within the
    \* polls of the handshake
    start_call

startVars == <<start_call>>

VARIABLES
    \* history: the capture_frame call made last: the backend it ran on,
    \* what the backend's capture and the direct retry did, and how the call
    \* ended
    cap_call

captureVars == <<cap_call>>

VARIABLES
    \* the JSON-line pipes of a ready input bridge: the number of commands
    \* written so far, the command lines the helper has not read yet, the
    \* response lines nobody has read yet (each is the answer to the command
    \* of that number), the command whose _send is waiting for its response
    \* (0: none), and, as history, what the _send that returned last had
    \* written and read
    sent, inbox, outbox, waiting, got

pairVars == <<sent, inbox, outbox, waiting, got>>

VARIABLES
    \* AuthManager._failed_attempts (client ip -> count and time of the last
    \* recorded failure), the clock, and, as history, the verification made
    \* last and what was known of its client before it
    failed_attempts, now, login,
    \* history: for each client the failed verifications in a row, as the
    \* clients have seen them, and the time of the last
    streak

authVars == <<failed_attempts, now, login, streak>>

otherVars == <<captureVars, pairVars, authVars>>

auxVars == <<probes, selected, stop_call, keyVars, sensVars, startVars,
             otherVars>>

vars == <<streamVars, inputVars, auxVars>>

(***************************************************************************)
(* Helpers.                                                                *)
(***************************************************************************)
\* no message handled, and a message that json.loads or data.get fails on
NoData == [type |-> "none", value |-> 0]
Undecodable == [type |-> "undecodable", value |-> 0]

RECURSIVE SumSeq(_)
SumSeq(s) == IF s = <<>> THEN 0 ELSE Head(s) + SumSeq(Tail(s))

Max(a, b) == IF a >= b THEN a ELSE b
Min(a, b) == IF a <= b THEN a ELSE b

\* s[-n:]
LastN(s, n) == IF Len(s) <= n THEN s ELSE SubSeq(s, Len(s) - n + 1, Len(s))

\* Mutant of UpdateAdaptive: the rate is lowered as soon as the average
\* exceeds 0.9 times the target interval.
UpdateAdaptiveTight(ft, f, q, afps, aq, frame_time) ==
    LET w == LastN(Append(ft, frame_time), WindowSize)
        n == Len(w)
        s == SumSeq(w)
    IN  IF n < MinSamples
        THEN [ft |-> w, afps |-> afps, aq |-> aq, raised |-> FALSE]
        ELSE IF f = 0
        THEN [ft |-> w, afps |-> afps, aq |-> aq, raised |-> TRUE]
        ELSE IF 10 * s * f > 9 * Second * n
        THEN [ft |-> w, afps |-> Max(MinFps, afps - 1), aq |-> q,
              raised |-> FALSE]
        ELSE IF 2 * s * f < Second * n
        THEN [ft |-> w, afps |-> Min(f, afps + 1), aq |-> q, raised |-> FALSE]
        ELSE [ft |-> w, afps |-> afps, aq |-> q, raised |-> FALSE]

(***************************************************************************)
(* ScreenCapture._update_adaptive(frame_time).  The result carries the new *)
(* window, adaptive fps and adaptive quality, and whether the call raised  *)
(* (1.0 / self.fps with fps = 0); the window is updated before the         *)
(* division, adaptive_quality is assigned only on the last line.           *)
(* avg > 1.5 * target  <=>  2 * sum * fps > 3 * Second * len   (fps > 0)   *)
(* avg < 0.5 * target  <=>  2 * sum * fps < Second * len                   *)
(***************************************************************************)
UpdateAdaptive(ft, f, q, afps, aq, frame_time) ==
    LET w == LastN(Append(ft, frame_time), WindowSize)
        n == Len(w)
        s == SumSeq(w)
    IN  IF n < MinSamples
        THEN [ft |-> w, afps |-> afps, aq |-> aq, raised |-> FALSE]
        ELSE IF f = 0
        THEN [ft |-> w, afps |-> afps, aq |-> aq, raised |-> TRUE]
        ELSE IF 2 * s * f > 3 * Second * n
        THEN [ft |-> w, afps |-> Max(MinFps, afps - 1), aq |-> q,
              raised |-> FALSE]
        ELSE IF 2 * s * f < Second * n
        THEN [ft |-> w, afps |-> Min(f, afps + 1), aq |-> q, raised |-> FALSE]
        ELSE [ft |-> w, afps |-> afps, aq |-> q, raised |-> FALSE]

(***************************************************************************)
(* The capture helper session: [proc, node, live, spawned].                *)
(***************************************************************************)
PwState == [proc |-> pw_session_proc, node |-> pw_node_id, live |-> pw_live,
            spawned |-> pw_spawned]

\* Mutant of StopPipewireSession: the guard on the process is missing.
StopPipewireSessionUnguarded(s) ==
    [s EXCEPT !.proc = None, !.node = None, !.live = s.live - 1]

\* ScreenCapture._stop_pipewire_session: stop token, wait, terminate, kill;
\* on every path the process is gone and both fields are cleared.
StopPipewireSession(s) ==
    IF s.proc # None
    THEN [s EXCEPT !.proc = None, !.node = None, !.live = s.live - 1]
    ELSE s

\* What the helper does during the handshake of _start_pipewire_session:
\* prints NODE:<id>, prints ERROR:<reason>, stays silent for the 10 polls,
\* or prints NODE:<not an integer> (int() raises inside the try).
HandshakeOutcomes == {"node", "error", "silent", "badnode"}

\* Mutant of StartPipewireSession: a failed handshake leaves the helper as
\* it is.
StartPipewireSessionKeepsHelper(s, o) ==
    IF s.proc # None
    THEN s
    ELSE LET t == [s EXCEPT !.proc = "proc", !.live = s.live + 1,
                            !.spawned = TRUE]
         IN  IF o = "node" THEN [t EXCEPT !.node = NodeId] ELSE t

\* ScreenCapture._start_pipewire_session once Popen has succeeded.
StartPipewireSession(s, o) ==
    IF s.proc # None
    THEN s
    ELSE LET t == [s EXCEPT !.proc = "proc", !.live = s.live + 1,
                            !.spawned = TRUE]
         IN  IF o = "node" THEN [t EXCEPT !.node = NodeId]
                           ELSE StopPipewireSession(t)

SetPw(s) ==
    /\ pw_session_proc' = s.proc
    /\ pw_node_id' = s.node
    /\ pw_live' = s.live
    /\ pw_spawned' = s.spawned


(***************************************************************************)
(* stream_frames, the asynchronous generator.  gpc is where it is:         *)
(* "created" (not started), "top" (inside the while loop, between two      *)
(* iterations), "yielded" (suspended at the yield, the consumer holds the  *)
(* frame), "done" (finished).  It runs only while the consumer awaits its  *)
(* next frame (wpc = "next").                                              *)
(***************************************************************************)

\* Mutant of GenFinally: the helper session is left as it is.
GenFinallyKeepsHelper(s) == s

\* The finally block: running is cleared and, on the pipewire backend, the
\* helper session is stopped.
GenFinally(s) ==
    IF backend = "pipewire" THEN StopPipewireSession(s) ELSE s

Finish(s, reason) ==
    /\ running' = FALSE
    /\ SetPw(GenFinally(s))
    /\ gpc' = "done"
    /\ exit_reason' = reason

\* Lines 328-334 when nothing raises: the adaptive values are reset and the
\* pipewire backend starts its helper session.
GenStart ==
    /\ gpc = "created" /\ wpc = "next"
    /\ running' = TRUE
    /\ adaptive_quality' = quality
    /\ adaptive_fps' = fps
    /\ error_count' = 0
    /\ gpc' = "top"
    /\ IF backend = "pipewire"
       THEN \E o \in HandshakeOutcomes : SetPw(StartPipewireSession(PwState, o))
       ELSE SetPw(PwState)
    /\ UNCHANGED <<fps, quality, monitor, frame_times, backend, wpc, ws_result,
                   conn, exit_reason, frame_quality, consec_fail, fail_sleeps,
                   frames, controls>>
    /\ UNCHANGED data
    /\ UNCHANGED <<inputVars, auxVars>>

\* Lines 328-334 when subprocess.Popen raises in _start_pipewire_session:
\* the call is before the try of line 336, so the exception leaves the
\* generator, the finally block is not run, and ws_screen ends with it.
GenStartSpawnFails ==
    /\ gpc = "created" /\ wpc = "next"
    /\ backend = "pipewire"
    /\ running' = TRUE
    /\ adaptive_quality' = quality
    /\ adaptive_fps' = fps
    /\ error_count' = 0
    /\ gpc' = "done"
    /\ exit_reason' = "raised"
    /\ wpc' = "finally"
    /\ ws_result' = "exception"
    /\ UNCHANGED <<fps, quality, monitor, frame_times, backend, conn,
                   pw_node_id, pw_session_proc, pw_live, pw_spawned,
                   frame_quality, consec_fail, fail_sleeps, frames, controls>>
    /\ UNCHANGED data
    /\ UNCHANGED <<inputVars, auxVars>>

\* The acquisition of lines 341-359: what it returns ("frame", "none" for
\* frame_data None, "exc" for an exception that reaches line 380) and the
\* helper session it leaves.
\*  - pipewire with a node id: _capture_pipewire_bytes returns the bytes,
\*    or stops the session and returns None when gst-launch fails, or lets
\*    subprocess.TimeoutExpired through;
\*  - pipewire without a node id: _capture_image -> _capture_pipewire starts
\*    the session again; every exception there (Popen, no node, gst-launch)
\*    is caught by _capture_image, which falls back to _capture_mss;
\*  - the other backends: an image or None; the encoding may raise.
AcquireResults ==
    IF backend = "pipewire" /\ pw_node_id # None
    THEN { [kind |-> "frame", pw |-> PwState],
           [kind |-> "none", pw |-> StopPipewireSession(PwState)],
           [kind |-> "exc", pw |-> PwState] }
    ELSE IF backend = "pipewire"
    THEN LET started == {PwState} \cup
                        {StartPipewireSession(PwState, o) : o \in HandshakeOutcomes}
             after == started \cup
                      {StopPipewireSession(s) : s \in {t \in started : t.node # None}}
         IN  {[kind |-> k, pw |-> s] : k \in {"frame", "none", "exc"}, s \in after}
    ELSE {[kind |-> k, pw |-> PwState] : k \in {"frame", "none", "exc"}}

\* Mutant of TooManyErrors: the threshold is off by one.
TooManyErrorsOffByOne(n) == n > MaxErrors + 1

\* The error threshold of lines 363 and 383.
TooManyErrors(n) == n > MaxErrors

\* An iteration whose acquisition succeeds (lines 369-374): the counter is
\* reset, the rate adaptation runs and the frame is yielded; when the
\* adaptation raises, line 380 counts one error and sleeps.
IterFrame ==
    /\ gpc = "top" /\ wpc = "next" /\ running
    /\ frames < MaxFrames
    /\ \E r \in {x \in AcquireResults : x.kind = "frame"}, l \in Latencies :
         LET u == UpdateAdaptive(frame_times, fps, quality, adaptive_fps,
                                 adaptive_quality, l)
         IN  /\ SetPw(r.pw)
             /\ frame_times' = u.ft
             /\ adaptive_fps' = u.afps
             /\ adaptive_quality' = u.aq
             /\ frame_quality' = adaptive_quality
             /\ IF u.raised
                THEN /\ error_count' = 1
                     /\ UNCHANGED <<gpc, wpc>>
                ELSE /\ error_count' = 0
                     /\ gpc' = "yielded"
                     /\ wpc' = "send"
    /\ consec_fail' = 0
    /\ fail_sleeps' = 0
    /\ frames' = frames + 1
    /\ UNCHANGED <<fps, quality, monitor, running, backend, ws_result, conn,
                   exit_reason, controls>>
    /\ UNCHANGED data
    /\ UNCHANGED <<inputVars, auxVars>>

\* An iteration whose acquisition fails (lines 361-367 and 380-385): count,
\* stop past the threshold, else sleep 0.5 s and retry.
IterFail ==
    /\ gpc = "top" /\ wpc = "next" /\ running
    /\ \E r \in {x \in AcquireResults : x.kind # "frame"} :
         /\ error_count' = error_count + 1
         /\ consec_fail' = consec_fail + 1
         /\ IF TooManyErrors(error_count + 1)
            THEN /\ Finish(r.pw, "errors")
                 /\ wpc' = "finally"
                 /\ ws_result' = "normal"
                 /\ UNCHANGED fail_sleeps
            ELSE /\ SetPw(r.pw)
                 /\ fail_sleeps' = fail_sleeps + 1
                 /\ UNCHANGED <<running, gpc, exit_reason, wpc, ws_result>>
    /\ UNCHANGED <<fps, quality, monitor, frame_times, adaptive_quality,
                   adaptive_fps, backend, conn, frame_quality, frames, controls>>
    /\ UNCHANGED data
    /\ UNCHANGED <<inputVars, auxVars>>

\* The consumer asks for the next frame: lines 376-378 after the yield.
\* 1.0 / adaptive_fps raises when a set_fps message made it 0; line 380
\* counts that, too.
GenResume ==
    /\ gpc = "yielded" /\ wpc = "next"
    /\ IF adaptive_fps = 0
       THEN /\ error_count' = error_count + 1
            /\ IF TooManyErrors(error_count + 1)
               THEN Finish(PwState, "errors") /\ wpc' = "finally"
                    /\ ws_result' = "normal"
               ELSE /\ gpc' = "top"
                    /\ UNCHANGED <<running, pw_node_id, pw_session_proc, pw_live,
                                   pw_spawned, exit_reason, wpc, ws_result>>
       ELSE /\ gpc' = "top"
            /\ UNCHANGED <<error_count, running, pw_node_id, pw_session_proc,
                           pw_live, pw_spawned, exit_reason, wpc, ws_result>>
    /\ UNCHANGED <<fps, quality, monitor, frame_times, adaptive_quality,
                   adaptive_fps, backend, conn, frame_quality, consec_fail,
                   fail_sleeps, frames, controls>>
    /\ data' = NoData
    /\ UNCHANGED <<inputVars, auxVars>>

\* The generator is finalized while suspended at the yield: its consumer has
\* left the async for loop without closing it, and the interpreter's
\* asynchronous generator hook runs aclose() once the object is collected.
\* GeneratorExit is not an Exception: only the finally block runs.
AsyncGenFinalize ==
    /\ gpc = "yielded" /\ wpc \in {"finally", "done"}
    /\ Finish(PwState, "closed")
    /\ UNCHANGED <<fps, quality, monitor, frame_times, adaptive_quality,
                   adaptive_fps, backend, error_count, wpc, ws_result, conn,
                   frame_quality, consec_fail, fail_sleeps, frames, controls>>
    /\ UNCHANGED data
    /\ UNCHANGED <<inputVars, auxVars>>


(***************************************************************************)
(* ws_screen, the consumer.  wpc: "next" (awaiting the generator's next    *)
(* frame), "send" (line 209), "recv" (lines 214-229), "finally" (line 234) *)
(* and "done".  conn is the client side: "open", "closed" (the peer has    *)
(* gone, the server has not read the disconnect message yet) or "seen"     *)
(* (receive_text has raised WebSocketDisconnect once).                     *)
(***************************************************************************)
ControlMessages ==
    [type : {"set_quality"}, value : Qualities] \cup
    [type : {"set_fps"}, value : ControlFps] \cup
    [type : {"set_monitor"}, value : Monitors] \cup
    [type : {"ping"}, value : {0}]

\* The peer closes the connection.
PeerClose ==
    /\ conn = "open" /\ wpc # "done"
    /\ conn' = "closed"
    /\ UNCHANGED <<fps, quality, monitor, running, frame_times,
                   adaptive_quality, adaptive_fps, pw_node_id, pw_session_proc,
                   backend, error_count, gpc, wpc, ws_result, pw_live,
                   exit_reason, frame_quality, consec_fail, fail_sleeps,
                   frames, controls, pw_spawned>>
    /\ UNCHANGED data
    /\ UNCHANGED <<inputVars, auxVars>>

\* Line 209: the frame is sent.
WsSend ==
    /\ wpc = "send"
    /\ wpc' = "recv"
    /\ UNCHANGED <<fps, quality, monitor, running, frame_times,
                   adaptive_quality, adaptive_fps, pw_node_id, pw_session_proc,
                   backend, error_count, gpc, ws_result, conn, pw_live,
                   exit_reason, frame_quality, consec_fail, fail_sleeps,
                   frames, controls, pw_spawned>>
    /\ UNCHANGED data
    /\ UNCHANGED <<inputVars, auxVars>>

\* Lines 210-211: send_bytes raises on a connection the peer has left, and
\* the loop is left with break.
WsSendFails ==
    /\ wpc = "send" /\ conn # "open"
    /\ wpc' = "finally"
    /\ ws_result' = "normal"
    /\ UNCHANGED <<fps, quality, monitor, running, frame_times,
                   adaptive_quality, adaptive_fps, pw_node_id, pw_session_proc,
                   backend, error_count, gpc, conn, pw_live, exit_reason,
                   frame_quality, consec_fail, fail_sleeps, frames, controls,
                   pw_spawned>>
    /\ UNCHANGED data
    /\ UNCHANGED <<inputVars, auxVars>>

\* Lines 215-217 and 228: nothing arrives within the 1 ms.
WsRecvTimeout ==
    /\ wpc = "recv" /\ conn # "seen"
    /\ wpc' = "next"
    /\ UNCHANGED <<fps, quality, monitor, running, frame_times,
                   adaptive_quality, adaptive_fps, pw_node_id, pw_session_proc,
                   backend, error_count, gpc, ws_result, conn, pw_live,
                   exit_reason, frame_quality, consec_fail, fail_sleeps,
                   frames, controls, pw_spawned>>
    /\ data' = NoData
    /\ UNCHANGED <<inputVars, auxVars>>

\* Mutant of SetQuality: the adaptive rate is reset as set_fps does.
SetQualityResetsFps(m) ==
    /\ quality' = m.value
    /\ adaptive_quality' = m.value
    /\ adaptive_fps' = fps
    /\ UNCHANGED <<fps, monitor>>

\* Mutant of SetQuality: the adaptive quality is not updated with it.
SetQualityStale(m) ==
    /\ quality' = m.value
    /\ UNCHANGED <<adaptive_quality, fps, adaptive_fps, monitor>>

\* Lines 220-222.
SetQuality(m) ==
    /\ quality' = m.value
    /\ adaptive_quality' = m.value
    /\ UNCHANGED <<fps, adaptive_fps, monitor>>

\* Lines 223-225.
SetFps(m) ==
    /\ fps' = m.value
    /\ adaptive_fps' = m.value
    /\ UNCHANGED <<quality, adaptive_quality, monitor>>

\* Lines 226-227.
SetMonitor(m) ==
    /\ monitor' = m.value
    /\ UNCHANGED <<fps, adaptive_fps, quality, adaptive_quality>>

\* Lines 218-227: a decoded mapping; another type matches no branch.
WsRecvControl ==
    /\ wpc = "recv" /\ conn = "open"
    /\ controls < MaxControl
    /\ \E m \in ControlMessages :
         /\ data' = m
         /\ CASE m.type = "set_quality" -> SetQuality(m)
              [] m.type = "set_fps" -> SetFps(m)
              [] m.type = "set_monitor" -> SetMonitor(m)
              [] OTHER -> UNCHANGED <<fps, adaptive_fps, quality,
                                      adaptive_quality, monitor>>
    /\ controls' = controls + 1
    /\ wpc' = "next"
    /\ UNCHANGED <<running, frame_times, pw_node_id, pw_session_proc, backend,
                   error_count, gpc, ws_result, conn, pw_live, exit_reason,
                   frame_quality, consec_fail, fail_sleeps, frames, pw_spawned>>
    /\ UNCHANGED <<inputVars, auxVars>>

\* Line 218 raises json.JSONDecodeError on text that is not JSON, and
\* data.get raises AttributeError on a value that is no mapping; neither is
\* caught by lines 228 or 231, so the coroutine ends with the exception.
WsRecvUndecodable ==
    /\ wpc = "recv" /\ conn = "open"
    /\ wpc' = "finally"
    /\ ws_result' = "exception"
    /\ UNCHANGED <<fps, quality, monitor, running, frame_times,
                   adaptive_quality, adaptive_fps, pw_node_id, pw_session_proc,
                   backend, error_count, gpc, conn, pw_live, exit_reason,
                   frame_quality, consec_fail, fail_sleeps, frames, controls,
                   pw_spawned>>
    /\ data' = Undecodable
    /\ UNCHANGED <<inputVars, auxVars>>

\* Line 228: receive_text raises WebSocketDisconnect, which is passed over;
\* the loop goes on to the next frame.
WsRecvDisconnect ==
    /\ wpc = "recv" /\ conn = "closed"
    /\ conn' = "seen"
    /\ wpc' = "next"
    /\ UNCHANGED <<fps, quality, monitor, running, frame_times,
                   adaptive_quality, adaptive_fps, pw_node_id, pw_session_proc,
                   backend, error_count, gpc, ws_result, pw_live, exit_reason,
                   frame_quality, consec_fail, fail_sleeps, frames, controls,
                   pw_spawned>>
    /\ data' = NoData
    /\ UNCHANGED <<inputVars, auxVars>>

\* receive_text after the disconnect message has been received raises
\* RuntimeError, which lines 228 and 231 do not catch.
WsRecvAfterDisconnect ==
    /\ wpc = "recv" /\ conn = "seen"
    /\ wpc' = "finally"
    /\ ws_result' = "exception"
    /\ UNCHANGED <<fps, quality, monitor, running, frame_times,
                   adaptive_quality, adaptive_fps, pw_node_id, pw_session_proc,
                   backend, error_count, gpc, conn, pw_live, exit_reason,
                   frame_quality, consec_fail, fail_sleeps, frames, controls,
                   pw_spawned>>
    /\ UNCHANGED data
    /\ UNCHANGED <<inputVars, auxVars>>

\* ScreenCapture.stop
Stop == running' = FALSE

\* Line 234, the finally of ws_screen: capture.stop() and nothing else.
WsFinally ==
    /\ wpc = "finally"
    /\ Stop
    /\ wpc' = "done"
    /\ UNCHANGED <<fps, quality, monitor, frame_times, adaptive_quality,
                   adaptive_fps, pw_node_id, pw_session_proc, backend,
                   error_count, gpc, ws_result, conn, pw_live, exit_reason,
                   frame_quality, consec_fail, fail_sleeps, frames, controls,
                   pw_spawned>>
    /\ UNCHANGED data
    /\ UNCHANGED <<inputVars, auxVars>>

\* ScreenCapture.__init__ as ws_screen calls it (lines 196-204), and the
\* coroutine about to enter the async for loop.
StreamInit ==
    /\ fps \in CreateFps
    /\ quality \in Qualities
    /\ monitor = 0
    /\ running = FALSE
    /\ frame_times = <<>>
    /\ adaptive_quality = quality
    /\ adaptive_fps = fps
    /\ pw_node_id = None
    /\ pw_session_proc = None
    /\ backend \in Backends
    /\ error_count = 0
    /\ gpc = "created"
    /\ wpc = "next"
    /\ ws_result = "none"
    /\ conn = "open"
    /\ pw_live = 0
    /\ exit_reason = "none"
    /\ frame_quality = 0
    /\ consec_fail = 0
    /\ fail_sleeps = 0
    /\ frames = 0
    /\ controls = 0
    /\ pw_spawned = FALSE
    /\ data = NoData

StreamNext ==
    \/ GenStart
    \/ GenStartSpawnFails
    \/ IterFrame
    \/ IterFail
    \/ GenResume
    \/ AsyncGenFinalize
    \/ PeerClose
    \/ WsSend
    \/ WsSendFails
    \/ WsRecvTimeout
    \/ WsRecvControl
    \/ WsRecvUndecodable
    \/ WsRecvDisconnect
    \/ WsRecvAfterDisconnect
    \/ WsFinally



(***************************************************************************)
(* The input router and its helper bridge (input_handler.py).              *)
(***************************************************************************)
Conns == {1, 2}

\* values a set_sensitivity command carries, in tenths
SensValues == {0, 25, 70}

\* commands that go to the helper through WaylandInputBackend._send
BridgeCommands == {"mouse_move", "mouse_down", "mouse_up", "key_press"}

Commands ==
    [type : BridgeCommands, value : {0}] \cup
    [type : {"set_sensitivity"}, value : SensValues] \cup
    [type : {"hover"}, value : {0}]

\* What a spawned helper prints while start() polls it, and whether it then
\* exits: "ready" and "error" are the status lines, "other" is a JSON mapping
\* with another status, "blank" an empty read (an empty line, or end of file
\* once the helper has exited), "garbage" a line that is not JSON.
Helpers ==
    { [lines |-> <<"ready">>, exits |-> FALSE],
      [lines |-> <<"other", "blank", "ready">>, exits |-> FALSE],
      [lines |-> [i \in 1..PollBudget |-> "blank"] \o <<"ready">>,
       exits |-> FALSE],
      [lines |-> <<>>, exits |-> FALSE],
      [lines |-> <<>>, exits |-> TRUE],
      [lines |-> <<"error">>, exits |-> TRUE],
      [lines |-> <<"garbage">>, exits |-> FALSE],
      [lines |-> <<"garbage">>, exits |-> TRUE] }

\* What the helper answers to a command it has read: {"status":"ok"}, an
\* error status, nothing within the 2 s, or a line that is not JSON.
Responses == {"ok", "error", "none", "malformed"}

\* The polling loop of WaylandInputBackend.start, lines 78-90: n polls left.
RECURSIVE Handshake(_, _)
Handshake(lines, n) ==
    IF n = 0 \/ lines = <<>> THEN "timeout"
    ELSE CASE Head(lines) = "ready" -> "ready"
           [] Head(lines) = "error" -> "error"
           [] Head(lines) = "garbage" -> "exception"
           [] OTHER -> Handshake(Tail(lines), n - 1)

\* The sensitivity setter, line 283: max(0.1, min(5.0, value)).
Clamp(v) == Max(SensMin, Min(SensMax, v))

Frame(fn, pc, c, type, value) ==
    [fn |-> fn, pc |-> pc, conn |-> c, type |-> type, value |-> value]

Top == stack[Len(stack)]
Pop == SubSeq(stack, 1, Len(stack) - 1)
SetTop(pc) == [stack EXCEPT ![Len(stack)].pc = pc]
Calling(pc, f) == Append(SetTop(pc), f)
Full == Len(stack) >= RecursionLimit
At(fn, pc) == stack # <<>> /\ Top.fn = fn /\ Top.pc = pc

\* the call of a command method is in progress (process_command is waiting
\* for its _send)
InCommandSend ==
    stack # <<>> /\ stack[1].fn = "cmd" /\ stack[1].pc = "after_send"
\* the frame on top is that _send
IsCommandSend == Len(stack) = 2 /\ InCommandSend

\* processes that count as running
Running(st) == st \in {"alive", "dying"}

\* process_command, lines 300-303: the command is read and ensure_started
\* calls start() unless the backend is ready.
CmdBegin ==
    /\ stack = <<>>
    /\ commands < MaxCommands
    /\ \E c \in Conns, cmd \in Commands :
         /\ conn_state[c] = "open"
         /\ last' = [conn |-> c, type |-> cmd.type, value |-> cmd.value,
                     phase |-> "run", result |-> "none",
                     after_violation |-> violation, any_spawn |-> FALSE,
                     dead_entry |-> FALSE, spawned |-> FALSE,
                     readied |-> FALSE, garbled |-> FALSE,
                     spawn_failed |-> FALSE, any_ready |-> FALSE,
                     send_ret |-> "none", delivered |-> FALSE,
                     used_sens |-> 0]
         /\ stack' = IF ready
                     THEN <<Frame("cmd", "dispatch", c, cmd.type, cmd.value)>>
                     ELSE <<Frame("cmd", "ensure", c, cmd.type, cmd.value),
                            Frame("start", "check", 0, "", 0)>>
    /\ commands' = commands + 1
    /\ UNCHANGED <<process, ready, proc_state, sensitivity, drag_active, exc,
                   conn_state, input_live, violation, sens_raw, sens_by,
                   sens_own>>
    /\ UNCHANGED helper_owner
    /\ UNCHANGED <<streamVars, auxVars>>

\* start(), lines 61-62: a process that poll() finds running is left alone,
\* whatever _ready says.
StartAlreadyRunning ==
    /\ At("start", "check")
    /\ process # None /\ Running(proc_state)
    /\ stack' = Pop
    /\ UNCHANGED <<process, ready, proc_state, sensitivity, drag_active, exc,
                   conn_state, input_live, last, violation, sens_raw, sens_by,
                   sens_own, commands>>
    /\ UNCHANGED helper_owner
    /\ UNCHANGED <<streamVars, auxVars>>

\* poll() has found the old process gone (or there is none): what is left
\* running once it is replaced by a new one.
LiveAfterRespawn ==
    (IF process # None /\ proc_state = "dying" THEN input_live - 1
                                               ELSE input_live) + 1

\* start(), lines 64-97: the helper is spawned and polled.  On "ready" the
\* bridge is ready; on an error status or when the polls run out stop() is
\* called inside the try; when a line is not JSON the except clause calls
\* stop().  A stop() that cannot be called any more raises RecursionError,
\* which the try passes to the except clause, whose own stop() raises again.
StartSpawn ==
    /\ At("start", "check")
    /\ process = None \/ proc_state \in {"dying", "exited"}
    /\ \E h \in Helpers :
         LET o == Handshake(h.lines, PollBudget)
         IN  /\ process' = "proc"
             /\ proc_state' = IF h.exits THEN "dying" ELSE "alive"
             /\ input_live' = LiveAfterRespawn
             /\ last' = [last EXCEPT
                           !.any_spawn = TRUE,
                           !.spawned = @ \/ InCommandSend,
                           !.readied = @ \/ (InCommandSend /\ o = "ready"),
                           !.garbled = @ \/ o = "exception",
                           !.any_ready = @ \/ o = "ready"]
             /\ IF o = "ready"
                THEN /\ ready' = TRUE
                     /\ violation' = FALSE
                     /\ stack' = Pop
                     /\ UNCHANGED exc
                ELSE /\ UNCHANGED <<ready, violation>>
                     /\ IF Full
                        THEN stack' = Pop /\ exc' = "RecursionError"
                        ELSE /\ stack' = Calling(IF o = "exception"
                                                 THEN "stop_handler"
                                                 ELSE "stop_try",
                                                 Frame("stop", "check", 0, "", 0))
                             /\ UNCHANGED exc
    /\ UNCHANGED <<sensitivity, drag_active, conn_state, sens_raw, sens_by,
                   sens_own, commands>>
    /\ helper_owner' = stack[1].conn
    /\ UNCHANGED <<streamVars, auxVars>>

\* start(), line 66: subprocess.Popen raises (the interpreter is missing, no
\* process can be created); the call is outside the try.
StartSpawnFails ==
    /\ At("start", "check")
    /\ process = None \/ proc_state \in {"dying", "exited"}
    /\ exc' = "OSError"
    /\ stack' = Pop
    /\ proc_state' = IF process # None THEN "exited" ELSE proc_state
    /\ input_live' = IF process # None /\ proc_state = "dying"
                     THEN input_live - 1 ELSE input_live
    /\ last' = [last EXCEPT !.spawn_failed = TRUE,
                             !.spawned = @ \/ InCommandSend]
    /\ UNCHANGED <<process, ready, sensitivity, drag_active, conn_state,
                   violation, sens_raw, sens_by, sens_own, commands>>
    /\ UNCHANGED helper_owner
    /\ UNCHANGED <<streamVars, auxVars>>

\* start(), lines 94-97, once its stop() is back: an exception of the stop()
\* of line 94 is caught by line 95 and stop() is called again; one of the
\* stop() of line 97 leaves start().
StartAfterStop ==
    /\ stack # <<>> /\ Top.fn = "start"
    /\ Top.pc \in {"stop_try", "stop_handler"}
    /\ IF exc = None
       THEN stack' = Pop /\ UNCHANGED exc
       ELSE IF Top.pc = "stop_try"
       THEN /\ stack' = Calling("stop_handler", Frame("stop", "check", 0, "", 0))
            /\ exc' = None
       ELSE stack' = Pop /\ UNCHANGED exc
    /\ UNCHANGED <<process, ready, proc_state, sensitivity, drag_active,
                   conn_state, input_live, last, violation, sens_raw, sens_by,
                   sens_own, commands>>
    /\ UNCHANGED helper_owner
    /\ UNCHANGED <<streamVars, auxVars>>

\* stop(), lines 106-112 on a process handle: terminate, wait, kill; the
\* handle is dropped and the bridge is not ready.
StopKill ==
    /\ process' = None
    /\ ready' = FALSE
    /\ proc_state' = "exited"
    /\ input_live' = IF Running(proc_state) THEN input_live - 1 ELSE input_live

\* stop(), lines 101-103: nothing to do without a process; else the stop
\* command goes through _send.  When _send cannot be called any more, the
\* RecursionError is caught by line 105.
StopEnter ==
    /\ At("stop", "check")
    /\ IF process = None
       THEN /\ stack' = Pop
            /\ UNCHANGED <<process, ready, proc_state, input_live>>
       ELSE IF Full
       THEN StopKill /\ stack' = Pop
       ELSE /\ stack' = Calling("after_send", Frame("send", "check", 0, "stop", 0))
            /\ UNCHANGED <<process, ready, proc_state, input_live>>
    /\ UNCHANGED <<sensitivity, drag_active, exc, conn_state, last, violation,
                   sens_raw, sens_by, sens_own, commands>>
    /\ UNCHANGED helper_owner
    /\ UNCHANGED <<streamVars, auxVars>>

\* stop(), lines 104-112, once _send is back (returned or raised): with a
\* process the wait, terminate and kill end it and the fields are cleared.
\* When a nested stop() has already cleared _process, wait, terminate and
\* kill are called on None and the AttributeError of line 110 leaves stop().
StopFinish ==
    /\ At("stop", "after_send")
    /\ IF process = None
       THEN /\ exc' = "AttributeError"
            /\ UNCHANGED <<process, ready, proc_state, input_live>>
       ELSE StopKill /\ exc' = None
    /\ stack' = Pop
    /\ UNCHANGED <<sensitivity, drag_active, conn_state, last, violation,
                   sens_raw, sens_by, sens_own, commands>>
    /\ UNCHANGED helper_owner
    /\ UNCHANGED <<streamVars, auxVars>>


\* _send, lines 116-119: the bridge is not ready, has no process, or poll()
\* finds the process gone; _ready is cleared and start() is called, outside
\* the try.  poll() is reached only when _ready is set and there is a process.
SendRestart ==
    /\ At("send", "check")
    /\ ~ready \/ process = None \/ proc_state \in {"dying", "exited"}
    /\ ready' = FALSE
    /\ IF ready /\ process # None /\ proc_state = "dying"
       THEN proc_state' = "exited" /\ input_live' = input_live - 1
       ELSE UNCHANGED <<proc_state, input_live>>
    /\ last' = [last EXCEPT !.dead_entry = @ \/ IsCommandSend]
    /\ IF Full
       THEN stack' = Pop /\ exc' = "RecursionError"
       ELSE /\ stack' = Calling("after_start", Frame("start", "check", 0, "", 0))
            /\ UNCHANGED exc
    /\ UNCHANGED <<process, sensitivity, drag_active, conn_state, violation,
                   sens_raw, sens_by, sens_own, commands>>
    /\ UNCHANGED helper_owner
    /\ UNCHANGED <<streamVars, auxVars>>

\* _send, line 116 evaluates to false: ready, and poll() finds the process
\* running.
SendProceed ==
    /\ At("send", "check")
    /\ ready /\ process # None /\ Running(proc_state)
    /\ stack' = SetTop("write")
    /\ UNCHANGED <<process, ready, proc_state, sensitivity, drag_active, exc,
                   conn_state, input_live, last, violation, sens_raw, sens_by,
                   sens_own, commands>>
    /\ UNCHANGED helper_owner
    /\ UNCHANGED <<streamVars, auxVars>>

\* _send, lines 119-121 once start() is back: its exception leaves _send;
\* a bridge still not ready gives "Input backend not available".
SendAfterStart ==
    /\ At("send", "after_start")
    /\ IF exc # None
       THEN /\ stack' = Pop
            /\ last' = IF IsCommandSend
                       THEN [last EXCEPT !.send_ret = "raised"] ELSE last
       ELSE IF ~ready
       THEN /\ stack' = Pop
            /\ last' = IF IsCommandSend
                       THEN [last EXCEPT !.send_ret = "not_available"] ELSE last
       ELSE stack' = SetTop("write") /\ UNCHANGED last
    /\ UNCHANGED <<process, ready, proc_state, sensitivity, drag_active, exc,
                   conn_state, input_live, violation, sens_raw, sens_by,
                   sens_own, commands>>
    /\ UNCHANGED helper_owner
    /\ UNCHANGED <<streamVars, auxVars>>

\* _send, lines 123-138: the command is written and the response read.  The
\* write fails on a helper that has exited (BrokenPipeError); a response that
\* is not JSON fails in json.loads; both are caught, _ready is cleared and an
\* error result is returned.  No response within 2 s counts as ok.  A helper
\* that reads "stop" exits without answering.
SendWrite ==
    /\ At("send", "write")
    /\ \E r \in Responses \cup {"broken_pipe"} :
         /\ r = "broken_pipe" => proc_state = "dying"
         /\ Top.type = "stop" => r \in {"none", "broken_pipe"}
         /\ LET fails == r \in {"malformed", "broken_pipe"}
                ret == CASE r = "malformed" -> "bad_response"
                         [] r = "broken_pipe" -> "io_error"
                         [] r = "error" -> "helper_error"
                         [] OTHER -> "ok"
            IN  /\ ready' = IF fails THEN FALSE ELSE ready
                /\ violation' = IF fails THEN TRUE ELSE violation
                /\ proc_state' = IF Top.type = "stop" /\ r = "none"
                                 THEN "dying" ELSE proc_state
                /\ last' = IF IsCommandSend
                           THEN [last EXCEPT !.send_ret = ret,
                                             !.delivered = r # "broken_pipe"]
                           ELSE last
    /\ stack' = Pop
    /\ UNCHANGED <<process, sensitivity, drag_active, exc, conn_state,
                   input_live, sens_raw, sens_by, sens_own, commands>>
    /\ UNCHANGED helper_owner
    /\ UNCHANGED <<streamVars, auxVars>>

\* process_command, line 303 once ensure_started is back: the call is outside
\* the try, so an exception of start() leaves process_command, and ws_input
\* (main.py 256-277) catches neither OSError nor AttributeError: the
\* connection's handler ends with it.
CmdEnsureReturn ==
    /\ At("cmd", "ensure")
    /\ IF exc # None
       THEN /\ stack' = <<>>
            /\ last' = [last EXCEPT !.phase = "done", !.result = "raised"]
            /\ conn_state' = [conn_state EXCEPT ![Top.conn] = "failed"]
            /\ exc' = None
       ELSE /\ stack' = SetTop("dispatch")
            /\ UNCHANGED <<last, conn_state, exc>>
    /\ UNCHANGED <<process, ready, proc_state, sensitivity, drag_active,
                   input_live, violation, sens_raw, sens_by, sens_own,
                   commands>>
    /\ UNCHANGED helper_owner
    /\ UNCHANGED <<streamVars, auxVars>>

\* mutant: a router that keeps the sensitivity it had
SetSensitivityLocal(v) == sensitivity' = sensitivity

\* process_command, line 350 and the setter of lines 281-283.
SetSensitivity(v) == sensitivity' = Clamp(v)

\* process_command, lines 305-358: a mouse or keyboard command calls the
\* backend method, which calls _send (a relative mouse_move is scaled by the
\* sensitivity first); set_sensitivity stores the clamped value; any other
\* type gives the "Unknown command" error.
CmdDispatch ==
    /\ At("cmd", "dispatch")
    /\ IF Top.type \in BridgeCommands
       THEN /\ stack' = Calling("after_send",
                                Frame("send", "check", 0, Top.type, 0))
            /\ last' = [last EXCEPT !.used_sens = IF Top.type = "mouse_move"
                                                  THEN sensitivity ELSE 0]
            /\ UNCHANGED <<sensitivity, sens_raw, sens_by, sens_own>>
       ELSE IF Top.type = "set_sensitivity"
       THEN /\ SetSensitivity(Top.value)
            /\ sens_raw' = Top.value
            /\ sens_by' = Top.conn
            /\ sens_own' = [sens_own EXCEPT ![Top.conn] = Top.value]
            /\ stack' = <<>>
            /\ last' = [last EXCEPT !.phase = "done", !.result = "ok"]
       ELSE /\ stack' = <<>>
            /\ last' = [last EXCEPT !.phase = "done", !.result = "error"]
            /\ UNCHANGED <<sensitivity, sens_raw, sens_by, sens_own>>
    /\ UNCHANGED <<process, ready, proc_state, drag_active, exc, conn_state,
                   input_live, violation, commands>>
    /\ UNCHANGED helper_owner
    /\ UNCHANGED <<streamVars, auxVars>>

\* process_command, lines 313-362 once the backend method is back: the
\* method has dropped what _send returned; mouse_down and mouse_up set the
\* drag flag; the result is ok, or the error form when the call raised.
CmdAfterSend ==
    /\ At("cmd", "after_send")
    /\ IF exc # None
       THEN /\ last' = [last EXCEPT !.phase = "done", !.result = "error"]
            /\ UNCHANGED drag_active
       ELSE /\ last' = [last EXCEPT !.phase = "done", !.result = "ok"]
            /\ drag_active' = CASE Top.type = "mouse_down" -> TRUE
                                [] Top.type = "mouse_up" -> FALSE
                                [] OTHER -> drag_active
    /\ exc' = None
    /\ stack' = <<>>
    /\ UNCHANGED <<process, ready, proc_state, sensitivity, conn_state,
                   input_live, violation, sens_raw, sens_by, sens_own,
                   commands>>
    /\ UNCHANGED helper_owner
    /\ UNCHANGED <<streamVars, auxVars>>

\* Mutant of DecodeError: the exception ends the connection's handler.
DecodeErrorEndsHandler(c) ==
    /\ last' = [conn |-> c, type |-> "", value |-> 0, phase |-> "replied",
                result |-> "invalid_json", after_violation |-> violation,
                any_spawn |-> FALSE, dead_entry |-> FALSE, spawned |-> FALSE,
                readied |-> FALSE, garbled |-> FALSE, spawn_failed |-> FALSE,
                any_ready |-> FALSE, send_ret |-> "none",
                delivered |-> FALSE, used_sens |-> 0]
    /\ conn_state' = [conn_state EXCEPT ![c] = "failed"]

\* ws_input, main.py 271-274: json.JSONDecodeError is caught, the reply
\* {"status":"error","message":"Invalid JSON"} is sent and the loop goes on.
DecodeError(c) ==
    /\ last' = [conn |-> c, type |-> "", value |-> 0, phase |-> "replied",
                result |-> "invalid_json", after_violation |-> violation,
                any_spawn |-> FALSE, dead_entry |-> FALSE, spawned |-> FALSE,
                readied |-> FALSE, garbled |-> FALSE, spawn_failed |-> FALSE,
                any_ready |-> FALSE, send_ret |-> "none",
                delivered |-> FALSE, used_sens |-> 0]
    /\ UNCHANGED conn_state

\* ws_input, main.py 258-260 and 271-274: a text that is not JSON arrives;
\* json.loads raises before process_command is called.
RecvUndecodable ==
    /\ stack = <<>>
    /\ commands < MaxCommands
    /\ \E c \in Conns : conn_state[c] = "open" /\ DecodeError(c)
    /\ commands' = commands + 1
    /\ UNCHANGED <<process, ready, proc_state, sensitivity, drag_active, stack,
                   exc, input_live, violation, sens_raw, sens_by, sens_own>>
    /\ UNCHANGED helper_owner
    /\ UNCHANGED <<streamVars, auxVars>>

\* ws_input, main.py 275-278: the peer disconnects; nothing of the router or
\* of the bridge is touched.
ConnClose ==
    /\ stack = <<>>
    /\ \E c \in Conns :
         /\ conn_state[c] = "open"
         /\ conn_state' = [conn_state EXCEPT ![c] = "closed"]
    /\ UNCHANGED <<process, ready, proc_state, sensitivity, drag_active, stack,
                   exc, input_live, last, violation, sens_raw, sens_by,
                   sens_own, commands>>
    /\ UNCHANGED helper_owner
    /\ UNCHANGED <<streamVars, auxVars>>

\* The helper (wayland_input.py main) ends on its own between two commands:
\* until it is gone poll() may still find it running.
HelperDies ==
    /\ stack = <<>>
    /\ process # None /\ proc_state = "alive"
    /\ proc_state' = "dying"
    /\ UNCHANGED <<process, ready, sensitivity, drag_active, stack, exc,
                   conn_state, input_live, last, violation, sens_raw, sens_by,
                   sens_own, commands>>
    /\ UNCHANGED helper_owner
    /\ UNCHANGED <<streamVars, auxVars>>

\* ... and then it is gone: poll() returns its exit code from now on.
HelperExits ==
    /\ stack = <<>>
    /\ process # None /\ proc_state = "dying"
    /\ proc_state' = "exited"
    /\ input_live' = input_live - 1
    /\ UNCHANGED <<process, ready, sensitivity, drag_active, stack, exc,
                   conn_state, last, violation, sens_raw, sens_by, sens_own,
                   commands>>
    /\ UNCHANGED helper_owner
    /\ UNCHANGED <<streamVars, auxVars>>

\* InputHandler.__init__ and WaylandInputBackend.__init__: no process, not
\* ready, sensitivity 1.0, no drag; two input connections are open.
InputInit ==
    /\ process = None
    /\ ready = FALSE
    /\ proc_state = "exited"
    /\ sensitivity = SensDefault
    /\ drag_active = FALSE
    /\ stack = <<>>
    /\ exc = None
    /\ conn_state = [c \in Conns |-> "open"]
    /\ input_live = 0
    /\ last = [conn |-> 0, type |-> "", value |-> 0, phase |-> "idle",
               result |-> "none", after_violation |-> FALSE,
               any_spawn |-> FALSE, dead_entry |-> FALSE, spawned |-> FALSE,
               readied |-> FALSE, garbled |-> FALSE, spawn_failed |-> FALSE,
               any_ready |-> FALSE, send_ret |-> "none",
               delivered |-> FALSE, used_sens |-> 0]
    /\ violation = FALSE
    /\ sens_raw = SensDefault
    /\ sens_by = 0
    /\ sens_own = [c \in Conns |-> SensDefault]
    /\ commands = 0
    /\ helper_owner = 0

InputNext ==
    \/ CmdBegin
    \/ StartAlreadyRunning
    \/ StartSpawn
    \/ StartSpawnFails
    \/ StartAfterStop
    \/ StopEnter
    \/ StopFinish
    \/ SendRestart
    \/ SendProceed
    \/ SendAfterStart
    \/ SendWrite
    \/ CmdEnsureReturn
    \/ CmdDispatch
    \/ CmdAfterSend
    \/ RecvUndecodable
    \/ ConnClose
    \/ HelperDies
    \/ HelperExits

(***************************************************************************)
(* Key resolution: X11InputBackend._resolve_key / _resolve_modifier and    *)
(* resolve_keysym of the compositor helper.  A key name is a string; its   *)
(* lower-case form, its length and its codepoint are tabulated for the     *)
(* names below.                                                            *)
(***************************************************************************)
\* str.lower() on the names that are not lower-case already
Lowered ==
    { <<"Ctrl", "ctrl">>, <<"CTRL", "ctrl">>, <<"Control", "control">>,
      <<"Alt", "alt">>, <<"ALT", "alt">>, <<"Shift", "shift">>,
      <<"SHIFT", "shift">>, <<"Super", "super">>, <<"Win", "win">>,
      <<"Meta", "meta">>, <<"Cmd", "cmd">>, <<"CMD", "cmd">>,
      <<"Enter", "enter">>, <<"ENTER", "enter">>, <<"Return", "return">>,
      <<"Tab", "tab">>, <<"TAB", "tab">>, <<"Escape", "escape">>,
      <<"Esc", "esc">>, <<"ESC", "esc">>, <<"Backspace", "backspace">>,
      <<"Delete", "delete">>, <<"Space", "space">>, <<"Up", "up">>,
      <<"Down", "down">>, <<"Left", "left">>, <<"Right", "right">>,
      <<"Home", "home">>, <<"End", "end">>, <<"F1", "f1">>,
      <<"F12", "f12">>, <<"Hyper", "hyper">>, <<"Fn", "fn">>,
      <<"A", "a">>, <<"C", "c">>, <<"H", "h">>, <<"É", "é">> }

\* ord() of the single characters
Ord ==
    [c \in {"a", "c", "h", "i", "v", "A", "C", "H", "1", "!", " ", "é", "É"} |->
        CASE c = "a" -> 97  [] c = "c" -> 99  [] c = "h" -> 104
          [] c = "i" -> 105 [] c = "v" -> 118 [] c = "A" -> 65
          [] c = "C" -> 67  [] c = "H" -> 72  [] c = "1" -> 49
          [] c = "!" -> 33  [] c = " " -> 32  [] c = "é" -> 233
          [] c = "É" -> 201]

\* the strings of length 1
Chars == DOMAIN Ord

\* X11InputBackend.MODIFIER_MAP, lines 175-179
MODIFIER_MAP ==
    [n \in {"ctrl", "control", "alt", "shift", "super", "win", "meta", "cmd"}
        |-> CASE n \in {"ctrl", "control"} -> "ctrl"
              [] n = "alt" -> "alt"
              [] n = "shift" -> "shift"
              [] OTHER -> "win"]

\* X11InputBackend.SPECIAL_KEYS, lines 181-190 (f1 and f12 of the function
\* keys; the keys not listed map to themselves as these do)
SPECIAL_KEYS ==
    [n \in {"enter", "return", "tab", "escape", "esc", "backspace", "delete",
            "space", "up", "down", "left", "right", "home", "end", "f1",
            "f12"}
        |-> CASE n \in {"enter", "return"} -> "enter"
              [] n \in {"escape", "esc"} -> "escape"
              [] OTHER -> n]

\* KEYSYM_MAP of wayland_input.py, lines 34-108: letters and digits and
\* punctuation map to their codepoints, names to X11 keysyms
KEYSYM_MAP ==
    [n \in {"a", "c", "h", "i", "v", "A", "C", "H", "1", "!", " ",
            "enter", "return", "tab", "escape", "esc", "backspace", "delete",
            "space", "up", "down", "left", "right", "home", "end",
            "ctrl", "control", "alt", "shift", "super", "win", "meta", "cmd",
            "f1", "f12"}
        |-> CASE n \in Chars -> Ord[n]
              [] n \in {"enter", "return"} -> 65293
              [] n = "tab" -> 65289
              [] n \in {"escape", "esc"} -> 65307
              [] n = "backspace" -> 65288
              [] n = "delete" -> 65535
              [] n = "space" -> 32
              [] n = "up" -> 65362
              [] n = "down" -> 65364
              [] n = "left" -> 65361
              [] n = "right" -> 65363
              [] n = "home" -> 65360
              [] n = "end" -> 65367
              [] n \in {"ctrl", "control"} -> 65507
              [] n = "alt" -> 65513
              [] n = "shift" -> 65505
              [] n \in {"super", "win", "meta", "cmd"} -> 65515
              [] n = "f1" -> 65470
              [] n = "f12" -> 65481]

\* the key names given to the resolvers: the names of the maps in three
\* spellings, single characters, and names no map knows
Keys ==
    DOMAIN MODIFIER_MAP \cup DOMAIN SPECIAL_KEYS \cup DOMAIN KEYSYM_MAP
        \cup Chars \cup {p[1] : p \in Lowered} \cup {"hyper", "fn"}

\* key.lower()
Lower(k) ==
    IF \E p \in Lowered : p[1] = k
    THEN (CHOOSE p \in Lowered : p[1] = k)[2]
    ELSE k

\* dict.get(k) or ...: a missing entry is None
Get(map, k) == IF k \in DOMAIN map THEN map[k] ELSE None

\* X11InputBackend._resolve_key, lines 236-238
X11ResolveKey(k) ==
    LET l == Lower(k)
    IN  IF Get(MODIFIER_MAP, l) # None THEN MODIFIER_MAP[l]
        ELSE IF Get(SPECIAL_KEYS, l) # None THEN SPECIAL_KEYS[l]
        ELSE IF k \in Chars THEN k ELSE l

\* X11InputBackend._resolve_modifier, lines 240-241
X11ResolveModifier(m) ==
    LET l == Lower(m)
    IN  IF l \in DOMAIN MODIFIER_MAP THEN MODIFIER_MAP[l] ELSE l

\* resolve_keysym of wayland_input.py, lines 111-125 (for a string)
ResolveKeysym(k) ==
    LET key_lower == Lower(k)
    IN  IF key_lower \in DOMAIN KEYSYM_MAP THEN KEYSYM_MAP[key_lower]
        ELSE IF k \in Chars THEN Ord[k]
        ELSE IF k \in DOMAIN KEYSYM_MAP THEN KEYSYM_MAP[k] ELSE 0

\* no key resolved yet
Unresolved == 0 - 1

\* one key name is resolved by the three resolvers
ResolveKey ==
    /\ keysym = Unresolved
    /\ x11_key' = X11ResolveKey(key)
    /\ x11_mod' = X11ResolveModifier(key)
    /\ keysym' = ResolveKeysym(key)
    /\ UNCHANGED key
    /\ UNCHANGED <<streamVars, inputVars, probes, selected, stop_call,
                   helperVars, sensVars, startVars, otherVars>>

(***************************************************************************)
(* Keyboard commands on the compositor path: WaylandInputBackend.key_press *)
(* / key_combo / type_text send one line to the helper; the helper's main  *)
(* loop emits key events on the RemoteDesktop session and prints one       *)
(* response line.                                                          *)
(***************************************************************************)
NoCommand == [type |-> "none", key |-> "", keys |-> <<>>]

\* the keyboard commands the router passes to the bridge (process_command
\* lines 337-347): key is the main key of a key_press; keys are its
\* modifiers, the keys of a key_combo, or the characters of a type_text
KeyCommands ==
    {[type |-> "type_text", key |-> "", keys |-> t] :
        t \in {<<"H", "i", "!">>, <<"a">>, <<>>}}
    \cup
    {[type |-> "key_press", key |-> k, keys |-> m] :
        k \in {"c", "Enter", "hyper"},
        m \in {<<>>, <<"ctrl">>, <<"Ctrl", "shift">>, <<"hyper", "alt">>}}
    \cup
    {[type |-> "key_combo", key |-> "", keys |-> ks] :
        ks \in {<<"ctrl", "c">>, <<"Ctrl", "Alt", "Delete">>,
                <<"ctrl", "fn", "v">>, <<>>}}

\* a line on the helper's stdin (a command) or stdout (its status)
Request(c) == [dir |-> "request", type |-> c.type, key |-> c.key,
               keys |-> c.keys]
Response(status) == [dir |-> "response", type |-> status, key |-> "",
                     keys |-> <<>>]

\* key_event(keysym, state): one NotifyKeyboardKeysym call, lines 192-194
KeyEvent(ks, st) == [keysym |-> ks, state |-> st]

\* key_press(keysym), lines 196-199
KeyPressEvents(ks) == <<KeyEvent(ks, TRUE), KeyEvent(ks, FALSE)>>

RECURSIVE Reverse(_)
Reverse(q) == IF q = <<>> THEN <<>> ELSE Append(Reverse(Tail(q)), Head(q))

\* [resolve_keysym(k) for k in keys]
RECURSIVE Resolved(_)
Resolved(ks) ==
    IF ks = <<>> THEN <<>> ELSE <<ResolveKeysym(Head(ks))>> \o Resolved(Tail(ks))

\* for s in syms: if s: key_event(s, state)
RECURSIVE EachNonZero(_, _)
EachNonZero(syms, st) ==
    IF syms = <<>> THEN <<>>
    ELSE (IF Head(syms) # 0 THEN <<KeyEvent(Head(syms), st)>> ELSE <<>>)
             \o EachNonZero(Tail(syms), st)

\* type_text(text), lines 201-206
RECURSIVE TypeTextEvents(_)
TypeTextEvents(text) ==
    IF text = <<>> THEN <<>>
    ELSE LET ks == ResolveKeysym(Head(text))
         IN  (IF ks # 0 THEN KeyPressEvents(ks) ELSE <<>>)
                 \o TypeTextEvents(Tail(text))

\* Mutant of KeyPressCommandEvents: the modifiers are released in the order
\* they were pressed.
KeyPressCommandEventsSameOrder(k, modifiers) ==
    LET ks == ResolveKeysym(k)
        mod_syms == Resolved(modifiers)
        main == IF ks # 0 THEN KeyPressEvents(ks) ELSE <<>>
    IN  IF modifiers # <<>>
        THEN EachNonZero(mod_syms, TRUE) \o main
                 \o EachNonZero(mod_syms, FALSE)
        ELSE main

\* the key_press branch of main, lines 244-263
KeyPressCommandEvents(k, modifiers) ==
    LET ks == ResolveKeysym(k)
        mod_syms == Resolved(modifiers)
        main == IF ks # 0 THEN KeyPressEvents(ks) ELSE <<>>
    IN  IF modifiers # <<>>
        THEN EachNonZero(mod_syms, TRUE) \o main
                 \o EachNonZero(Reverse(mod_syms), FALSE)
        ELSE main

\* the key_combo branch of main, lines 265-276
KeyComboEvents(ks) ==
    LET syms == Resolved(ks)
    IN  EachNonZero(syms, TRUE) \o EachNonZero(Reverse(syms), FALSE)

\* the key events the helper's main loop emits for one command line
CommandEvents(c) ==
    CASE c.type = "type_text" -> TypeTextEvents(c.keys)
      [] c.type = "key_press" -> KeyPressCommandEvents(c.key, c.keys)
      [] c.type = "key_combo" -> KeyComboEvents(c.keys)
      [] OTHER -> <<>>

\* WaylandInputBackend.key_press / key_combo / type_text (lines 157-164) on
\* a ready bridge: _send writes one line (124-125); the helper reads it
\* (line 210) and decodes the command.
KeySend ==
    /\ hpc = "idle"
    /\ ready /\ process # None /\ proc_state = "alive"
    /\ \E c \in KeyCommands :
         /\ kcmd' = c
         /\ wire' = <<Request(c)>>
         /\ plan' = CommandEvents(c)
    /\ events' = <<>>
    /\ kresult' = "none"
    /\ hpc' = "handling"
    /\ UNCHANGED <<streamVars, inputVars, probes, selected, stop_call,
                   resolveVars, sensVars, startVars, otherVars>>

\* the helper makes the next NotifyKeyboardKeysym call and it returns
HelperKeyEvent ==
    /\ hpc = "handling"
    /\ plan # <<>>
    /\ events' = Append(events, Head(plan))
    /\ plan' = Tail(plan)
    /\ UNCHANGED <<kcmd, hpc, wire, kresult>>
    /\ UNCHANGED <<streamVars, inputVars, probes, selected, stop_call,
                   resolveVars, sensVars, startVars, otherVars>>

\* the next NotifyKeyboardKeysym call raises (the 1000 ms call timeout, a
\* session the compositor has closed): the except of line 284 prints the
\* error status and the loop goes on to the next line
HelperKeyEventRaises ==
    /\ hpc = "handling"
    /\ plan # <<>>
    /\ plan' = <<>>
    /\ wire' = Append(wire, Response("error"))
    /\ hpc' = "answered"
    /\ UNCHANGED <<kcmd, events, kresult>>
    /\ UNCHANGED <<streamVars, inputVars, probes, selected, stop_call,
                   resolveVars, sensVars, startVars, otherVars>>

\* the branch has run to its end: line 282 prints the ok status
HelperAnswerOk ==
    /\ hpc = "handling"
    /\ plan = <<>>
    /\ wire' = Append(wire, Response("ok"))
    /\ hpc' = "answered"
    /\ UNCHANGED <<kcmd, plan, events, kresult>>
    /\ UNCHANGED <<streamVars, inputVars, probes, selected, stop_call,
                   resolveVars, sensVars, startVars, otherVars>>

\* _send reads the response line within its 2 s (lines 129-133)
BridgeRead ==
    /\ hpc = "answered"
    /\ kresult = "none"
    /\ kresult' = wire[Len(wire)].type
    /\ hpc' = "idle"
    /\ UNCHANGED <<kcmd, plan, events, wire>>
    /\ UNCHANGED <<streamVars, inputVars, probes, selected, stop_call,
                   resolveVars, sensVars, startVars, otherVars>>

\* no response line within 2 s: _send returns ok (line 134) while the
\* helper is still handling the command
BridgeTimeout ==
    /\ hpc = "handling"
    /\ kresult = "none"
    /\ kresult' = "assumed_ok"
    /\ UNCHANGED <<kcmd, hpc, plan, events, wire>>
    /\ UNCHANGED <<streamVars, inputVars, probes, selected, stop_call,
                   resolveVars, sensVars, startVars, otherVars>>

KeysNext ==
    \/ KeySend
    \/ HelperKeyEvent
    \/ HelperKeyEventRaises
    \/ HelperAnswerOk
    \/ BridgeRead
    \/ BridgeTimeout

\* no key name is being resolved and no keyboard command has been sent
KeyInit ==
    /\ key = None
    /\ x11_key = None
    /\ x11_mod = None
    /\ keysym = Unresolved
    /\ kcmd = NoCommand
    /\ hpc = "idle"
    /\ plan = <<>>
    /\ events = <<>>
    /\ wire = <<>>
    /\ kresult = "none"

(***************************************************************************)
(* The router's sensitivity under set_sensitivity commands.                *)
(***************************************************************************)
\* the "value" of a set_sensitivity command as json.loads gives it: a number
\* (in tenths), a string, null, or no "value" key at all
SensNumbers == {0 - 10, 0, 1, 3, 10, 25, 49, 50, 51, 70, 1000}
SensInputs ==
    [kind : {"number"}, v : SensNumbers]
        \cup [kind : {"text", "null", "missing"}, v : {0}]
NoSensInput == [kind |-> "none", v |-> 0]

\* how ensure_started (line 303, outside the try) ends
EnsureOutcomes == {"returns", "raises"}

\* Mutant of SensitivitySetter: the value is stored as given.
SensitivitySetterUnclamped(cur, in) ==
    CASE in.kind = "number" -> [factor |-> in.v, raised |-> FALSE]
      [] in.kind = "missing" -> [factor |-> SensDefault, raised |-> FALSE]
      [] OTHER -> [factor |-> cur, raised |-> TRUE]

\* self.sensitivity = command.get("value", 1.0), line 350, with the setter
\* of lines 281-283: min(5.0, value) raises TypeError for a string or None
\* before anything is assigned
SensitivitySetter(cur, in) ==
    CASE in.kind = "number" -> [factor |-> Clamp(in.v), raised |-> FALSE]
      [] in.kind = "missing" -> [factor |-> Clamp(SensDefault),
                                 raised |-> FALSE]
      [] OTHER -> [factor |-> cur, raised |-> TRUE]

\* process_command for one set_sensitivity command, lines 298-362
SetSensitivityCommand ==
    /\ sens_count < MaxSensCommands
    /\ \E in \in SensInputs, e \in EnsureOutcomes :
         LET r == SensitivitySetter(sensitivity, in)
         IN  /\ sens_in' = in
             /\ sens_before' = sensitivity
             /\ IF e = "raises"
                THEN /\ sens_result' = "exception"
                     /\ UNCHANGED sensitivity
                ELSE /\ sensitivity' = r.factor
                     /\ sens_result' = IF r.raised THEN "error" ELSE "ok"
    /\ sens_count' = sens_count + 1
    /\ UNCHANGED <<process, ready, proc_state, drag_active, stack, exc,
                   conn_state, input_live, last, violation, sens_raw, sens_by,
                   sens_own, commands, helper_owner>>
    /\ UNCHANGED <<streamVars, probes, selected, stop_call, keyVars,
                   startVars, otherVars>>

\* process_command for a command of another type: no branch but that of
\* line 350 assigns the sensitivity
OtherRouterCommand ==
    /\ sens_count < MaxSensCommands
    /\ \E e \in EnsureOutcomes :
         sens_result' = IF e = "raises" THEN "exception" ELSE "ok"
    /\ sens_in' = NoSensInput
    /\ sens_before' = sensitivity
    /\ sens_count' = sens_count + 1
    /\ UNCHANGED inputVars
    /\ UNCHANGED <<streamVars, probes, selected, stop_call, keyVars,
                   startVars, otherVars>>

SensNext == SetSensitivityCommand \/ OtherRouterCommand

\* no command handled yet
SensInit ==
    /\ sens_in = NoSensInput
    /\ sens_before = SensDefault
    /\ sens_result = "none"
    /\ sens_count = 0

(***************************************************************************)
(* ScreenCapture.capture_frame and _capture_image (screen_capture.py       *)
(* 197-267, 300-321): one frame captured on demand, on a capture object in *)
(* any state.                                                              *)
(***************************************************************************)
\* the values of ScreenCapture._backend (_detect_backend, lines 63-84)
CaptureBackends ==
    {"pipewire", "grim", "gnome-screenshot", "spectacle", "mss-fallback", "mss"}

\* the quality argument of capture_frame: 0 stands for None
QualityArgs == {0} \cup Qualities

\* what one backend capture does: it returns an image or raises
CaptureOutcomes == {"image", "raises"}

NoCapture == [backend |-> "none", primary |-> "none", retry |-> "none",
              result |-> "none", q |-> 0, n |-> 0]

\* _capture_pipewire, lines 239-267, on the helper session s: without a node
\* id the session is started (Popen may raise; without a node id after the
\* handshake RuntimeError is raised); gst-launch gives the image, or fails
\* (the session is stopped and RuntimeError raised), or runs into its 10 s
\* timeout, or leaves a file Image.open cannot read (the session is kept).
CapturePipewire(s) ==
    LET started == IF s.node = None
                   THEN {StartPipewireSession(s, o) : o \in HandshakeOutcomes}
                   ELSE {s}
        withNode == {t \in started : t.node # None}
    IN  (IF s.node = None /\ s.proc = None
         THEN {[out |-> "raises", pw |-> s]} ELSE {})
        \cup {[out |-> "raises", pw |-> t] : t \in started \ withNode}
        \cup {[out |-> "image", pw |-> t] : t \in withNode}
        \cup {[out |-> "raises", pw |-> StopPipewireSession(t)] : t \in withNode}
        \cup {[out |-> "raises", pw |-> t] : t \in withNode}

\* the try of _capture_image, lines 221-229: the capture method of the
\* backend; _capture_cli and _capture_mss touch no helper session
BackendCapture(b, s) ==
    IF b = "pipewire" THEN CapturePipewire(s)
    ELSE {[out |-> o, pw |-> s] : o \in CaptureOutcomes}

\* whether the except clause of _capture_image retries on the direct path
\* (line 231)
Retries(b, primary) == primary = "raises" /\ b # "mss"

\* Mutant of CaptureImage: an exception of the retry is not caught.
CaptureImageRetryUncaught(b, primary, retry) ==
    IF primary = "image" THEN "image"
    ELSE IF Retries(b, primary)
    THEN (IF retry = "image" THEN "image" ELSE "raised")
    ELSE "none"

\* _capture_image, lines 219-237: the image of the backend, else (except on
\* the mss backend) the image of _capture_mss, else None
CaptureImage(b, primary, retry) ==
    IF primary = "image" THEN "image"
    ELSE IF Retries(b, primary) /\ retry = "image" THEN "image"
    ELSE "none"

\* capture_frame, lines 204-217: None becomes the 640x480 placeholder image,
\* and the image is encoded as JPEG; an exception of _capture_image would
\* leave capture_frame, which has no try
CaptureFrame(img) ==
    CASE img = "none" -> "placeholder"
      [] img = "image" -> "frame"
      [] OTHER -> "raised"

\* one call of capture_frame(quality): q = quality or self._adaptive_quality
CallCaptureFrame ==
    /\ cap_call.n < MaxCaptures
    /\ \E p \in BackendCapture(backend, PwState), retry \in CaptureOutcomes,
          qa \in QualityArgs :
         /\ SetPw(p.pw)
         /\ cap_call' =
              [backend |-> backend, primary |-> p.out,
               retry |-> IF Retries(backend, p.out) THEN retry ELSE "none",
               result |-> CaptureFrame(CaptureImage(backend, p.out, retry)),
               q |-> IF qa # 0 THEN qa ELSE adaptive_quality,
               n |-> cap_call.n + 1]
    /\ UNCHANGED <<fps, quality, monitor, running, frame_times,
                   adaptive_quality, adaptive_fps, backend, error_count, gpc,
                   wpc, ws_result, conn, exit_reason, frame_quality,
                   consec_fail, fail_sleeps, frames, controls, data>>
    /\ UNCHANGED <<inputVars, probes, selected, stop_call, keyVars, sensVars,
                   startVars, pairVars, authVars>>

CaptureNext == CallCaptureFrame

CaptureInit == cap_call = NoCapture

(***************************************************************************)
(* The two pipes of a ready input bridge: WaylandInputBackend._send, lines *)
(* 123-134, writes one command line and reads at most one response line;   *)
(* the helper's loop (wayland_input.py 209-285) reads the lines in order    *)
(* and prints one response for each.  Commands are numbered as written.     *)
(***************************************************************************)
\* no _send has returned yet
NoPair == [wrote |-> 0, read |-> 0]

\* lines 124-125: the backend method's _send writes the next command
PairSend ==
    /\ waiting = 0
    /\ sent < MaxPairCommands
    /\ ready /\ process # None /\ proc_state = "alive"
    /\ sent' = sent + 1
    /\ inbox' = Append(inbox, sent + 1)
    /\ waiting' = sent + 1
    /\ UNCHANGED <<outbox, got>>
    /\ UNCHANGED <<streamVars, inputVars, probes, selected, stop_call, keyVars,
                   sensVars, startVars, captureVars, authVars>>

\* the helper reads its next line, handles the command and prints the
\* response (wayland_input.py 210-285)
PairHelperAnswers ==
    /\ inbox # <<>>
    /\ outbox' = Append(outbox, Head(inbox))
    /\ inbox' = Tail(inbox)
    /\ UNCHANGED <<sent, waiting, got>>
    /\ UNCHANGED <<streamVars, inputVars, probes, selected, stop_call, keyVars,
                   sensVars, startVars, captureVars, authVars>>

\* lines 129-133: select finds the helper's output readable and readline
\* takes the first line that is there
PairRead ==
    /\ waiting # 0
    /\ outbox # <<>>
    /\ got' = [wrote |-> waiting, read |-> Head(outbox)]
    /\ outbox' = Tail(outbox)
    /\ waiting' = 0
    /\ UNCHANGED <<sent, inbox>>
    /\ UNCHANGED <<streamVars, inputVars, probes, selected, stop_call, keyVars,
                   sensVars, startVars, captureVars, authVars>>

\* line 134: nothing to read within 2 s (the helper is still handling the
\* command: a type_text of some fifty characters takes that long); _send
\* returns ok and the command stays with the helper
PairTimeout ==
    /\ waiting # 0
    /\ outbox = <<>>
    /\ got' = [wrote |-> waiting, read |-> 0]
    /\ waiting' = 0
    /\ UNCHANGED <<sent, inbox, outbox>>
    /\ UNCHANGED <<streamVars, inputVars, probes, selected, stop_call, keyVars,
                   sensVars, startVars, captureVars, authVars>>

PairNext ==
    \/ PairSend
    \/ PairHelperAnswers
    \/ PairRead
    \/ PairTimeout

PairInit ==
    /\ sent = 0
    /\ inbox = <<>>
    /\ outbox = <<>>
    /\ waiting = 0
    /\ got = NoPair

(***************************************************************************)
(* AuthManager.verify_password with its lockout (auth.py 63-163) behind    *)
(* the login route (main.py 84-89, 137-159).  Time is counted in ticks of  *)
(* half a second.                                                          *)
(***************************************************************************)
\* what get_client_ip gives: the client's address, or the empty string for
\* a request whose X-Forwarded-For header starts with a comma
Ips == {"10.0.0.7", ""}

\* the entry of a client without recorded failures (no key in the dict)
NoEntry == [count |-> 0, last |-> 0]

\* how far the clock moves between two requests
ClockSteps == {LockoutTicks - 1, LockoutTicks}

\* _is_locked_out(client_ip) at time t, lines 138-152: whether the client is
\* locked out, and the dict it leaves (an expired lockout is deleted)
IsLockedOut(fa, ip, t) ==
    IF ip = "" \/ fa[ip].count = 0 THEN [locked |-> FALSE, fa |-> fa]
    ELSE IF fa[ip].count >= MaxLoginAttempts
    THEN IF t - fa[ip].last < LockoutTicks
         THEN [locked |-> TRUE, fa |-> fa]
         ELSE [locked |-> FALSE, fa |-> [fa EXCEPT ![ip] = NoEntry]]
    ELSE [locked |-> FALSE, fa |-> fa]

\* _record_failure(client_ip) at time t, lines 154-163
RecordFailure(fa, ip, t) ==
    IF ip = "" THEN fa
    ELSE [fa EXCEPT ![ip] = [count |-> fa[ip].count + 1, last |-> t]]

\* verify_password(plain_password, client_ip) at time t with a password
\* set, lines 77-97: correct says whether bcrypt.checkpw accepts the password
VerifyPassword(fa, ip, correct, t) ==
    LET l == IsLockedOut(fa, ip, t)
    IN  IF l.locked THEN [valid |-> FALSE, fa |-> l.fa]
        ELSE IF correct
        THEN [valid |-> TRUE, fa |-> [l.fa EXCEPT ![ip] = NoEntry]]
        ELSE [valid |-> FALSE, fa |-> RecordFailure(l.fa, ip, t)]

\* get_lockout_remaining(client_ip) at time t, lines 165-175: whole seconds
GetLockoutRemaining(fa, ip, t) ==
    IF ip = "" \/ fa[ip].count = 0 THEN 0
    ELSE IF fa[ip].count >= MaxLoginAttempts
    THEN Max(0, (LockoutTicks - (t - fa[ip].last)) \div TicksPerSecond)
    ELSE 0

\* the lockout as the clients see it: the failed verifications of a client
\* in a row and the time of the last of them that was not made during a
\* lockout; a lockout over, the row starts again
Locked(st, ip, t) ==
    st[ip].count >= MaxLoginAttempts /\ t - st[ip].last < LockoutTicks

StreakAfter(st, ip, t, valid) ==
    IF Locked(st, ip, t) THEN st
    ELSE IF valid THEN [st EXCEPT ![ip] = NoEntry]
    ELSE [st EXCEPT ![ip] =
             [count |-> (IF @.count >= MaxLoginAttempts THEN 0 ELSE @.count) + 1,
              last |-> t]]

NoLogin == [ip |-> "", correct |-> FALSE, result |-> "none", locked |-> FALSE,
            kept |-> TRUE, n |-> 0]

\* POST /api/auth/login with a password set (main.py 137-159): 429 while
\* get_lockout_remaining is positive; else the body is read (time may pass)
\* and create_token verifies the password: 401 or the token
AuthLogin ==
    /\ login.n < MaxLogins
    /\ \E ip \in Ips, correct \in BOOLEAN, d \in {0, 1} :
         LET t == now + d
             v == VerifyPassword(failed_attempts, ip, correct, t)
             refused == GetLockoutRemaining(failed_attempts, ip, now) > 0
             fa == IF refused THEN failed_attempts ELSE v.fa
             valid == ~refused /\ v.valid
         IN  /\ failed_attempts' = fa
             /\ now' = t
             /\ streak' = StreakAfter(streak, ip, t, valid)
             /\ login' = [ip |-> ip, correct |-> correct,
                          result |-> IF refused THEN "429"
                                     ELSE IF v.valid THEN "ok" ELSE "401",
                          locked |-> Locked(streak, ip, t),
                          kept |-> fa[ip] = failed_attempts[ip],
                          n |-> login.n + 1]
    /\ UNCHANGED <<streamVars, inputVars, probes, selected, stop_call, keyVars,
                   sensVars, startVars, captureVars, pairVars>>

\* time passes between two requests
ClockAdvance ==
    /\ \E s \in ClockSteps : now + s <= MaxClock /\ now' = now + s
    /\ UNCHANGED <<failed_attempts, streak, login>>
    /\ UNCHANGED <<streamVars, inputVars, probes, selected, stop_call, keyVars,
                   sensVars, startVars, captureVars, pairVars>>

AuthNext ==
    \/ AuthLogin
    \/ ClockAdvance

\* AuthManager.__init__, line 24: no failure recorded
AuthInit ==
    /\ failed_attempts = [ip \in Ips |-> NoEntry]
    /\ streak = [ip \in Ips |-> NoEntry]
    /\ now = 0
    /\ login = NoLogin

\* no capture_frame call, nothing on the pipes, no login yet
OtherInit == CaptureInit /\ PairInit /\ AuthInit

(***************************************************************************)
(* ScreenCapture._detect_backend, run by ScreenCapture.__init__.           *)
(***************************************************************************)
\* gdbus introspect of org.gnome.Mutter.ScreenCast: exit status 0, another
\* exit status, no answer within 2 s (TimeoutExpired), no gdbus executable
\* (FileNotFoundError), or subprocess.run fails with another OSError (no
\* permission to execute, no descriptor or memory left)
GdbusOutcomes == {"zero", "nonzero", "timeout", "missing", "oserror"}

\* "which <tool>": exit status 0, another exit status (CalledProcessError),
\* or subprocess.run fails with another OSError
WhichOutcomes == {"found", "notfound", "oserror"}

\* Mutant of Tools: another order.
ToolsReordered == <<"gnome-screenshot", "grim", "spectacle">>

\* the tools in the order of line 79
Tools == <<"grim", "gnome-screenshot", "spectacle">>

\* wayland is _is_wayland; which_missing: there is no "which" executable
\* (FileNotFoundError for every lookup)
ProbeOutcomes ==
    [wayland : BOOLEAN, gdbus : GdbusOutcomes, which_missing : BOOLEAN,
     tool : [{Tools[i] : i \in 1..Len(Tools)} -> WhichOutcomes]]

\* _cmd_exists, lines 87-92: "yes", "no", or "raised" for an exception that
\* is neither CalledProcessError nor FileNotFoundError.
CmdExists(p, cmd) ==
    IF p.which_missing THEN "no"
    ELSE CASE p.tool[cmd] = "found" -> "yes"
           [] p.tool[cmd] = "notfound" -> "no"
           [] OTHER -> "raised"

\* the loop of lines 79-81 over the tools left, then line 83
RECURSIVE FirstTool(_, _)
FirstTool(p, tools) ==
    IF tools = <<>> THEN "mss-fallback"
    ELSE LET r == CmdExists(p, Head(tools))
         IN  IF r = "raised" THEN "raised"
             ELSE IF r = "yes" THEN Head(tools)
             ELSE FirstTool(p, Tail(tools))

\* Mutant of DetectBackend: a compositor session without the screen-cast
\* interface selects nothing.
DetectBackendNoTools(p) ==
    IF p.wayland
    THEN CASE p.gdbus = "zero" -> "pipewire"
           [] p.gdbus = "oserror" -> "raised"
           [] OTHER -> "none"
    ELSE "mss"

\* _detect_backend, lines 64-85: the backend name, or "raised" when a probe
\* raises an exception the code does not catch.
DetectBackend(p) ==
    IF p.wayland
    THEN CASE p.gdbus = "zero" -> "pipewire"
           [] p.gdbus = "oserror" -> "raised"
           [] OTHER -> FirstTool(p, Tools)
    ELSE "mss"

\* ScreenCapture.__init__, line 61: a capture session is created and selects
\* its backend; every creation selects again.
CreateCapture ==
    /\ selected' = DetectBackend(probes)
    /\ UNCHANGED <<probes, stop_call, keyVars, sensVars, startVars, otherVars>>
    /\ UNCHANGED <<streamVars, inputVars>>

NoStart == [target |-> "none", status |-> "none"]

NoCall == [target |-> "none", was_stopped |-> FALSE, seen |-> {}]

\* a stop call on target begins; seen collects the objects that were stopped
\* already when stop was called on them
StopCall(target, stopped) ==
    [target |-> target, was_stopped |-> stopped,
     seen |-> IF stopped THEN stop_call.seen \cup {target} ELSE stop_call.seen]

\* no selection and no stop call under way
AuxInit ==
    /\ probes = [wayland |-> FALSE, gdbus |-> "missing", which_missing |-> FALSE,
                 tool |-> [t \in {Tools[i] : i \in 1..Len(Tools)} |-> "notfound"]]
    /\ selected = None
    /\ stop_call = NoCall
    /\ KeyInit
    /\ SensInit
    /\ start_call = NoStart
    /\ OtherInit

(***************************************************************************)
(* The stop operations, called on objects in any state.                    *)
(***************************************************************************)
\* ScreenCapture.stop(), lines 412-413.
CallStop ==
    /\ stack = <<>>
    /\ Stop
    /\ stop_call' = StopCall("capture", ~running)
    /\ UNCHANGED <<fps, quality, monitor, frame_times, adaptive_quality,
                   adaptive_fps, pw_node_id, pw_session_proc, backend,
                   error_count, gpc, wpc, ws_result, conn, pw_live, exit_reason,
                   frame_quality, consec_fail, fail_sleeps, frames, controls,
                   pw_spawned>>
    /\ UNCHANGED data
    /\ UNCHANGED <<inputVars, probes, selected, keyVars, sensVars,
                   startVars, otherVars>>

\* ScreenCapture._stop_pipewire_session(), lines 133-147.
CallStopPipewireSession ==
    /\ stack = <<>>
    /\ SetPw(StopPipewireSession(PwState))
    /\ stop_call' = StopCall("session", pw_session_proc = None)
    /\ UNCHANGED <<fps, quality, monitor, running, frame_times,
                   adaptive_quality, adaptive_fps, backend, error_count, gpc,
                   wpc, ws_result, conn, exit_reason, frame_quality,
                   consec_fail, fail_sleeps, frames, controls>>
    /\ UNCHANGED data
    /\ UNCHANGED <<inputVars, probes, selected, keyVars, sensVars,
                   startVars, otherVars>>

\* InputHandler.stop(), lines 364-367: WaylandInputBackend.stop() is called;
\* the call runs as the steps StopEnter, StopFinish and those of the _send
\* and start it makes.
CallBridgeStop ==
    /\ stack = <<>>
    /\ stack' = <<Frame("stop", "check", 0, "", 0)>>
    /\ exc' = None
    /\ stop_call' = StopCall("bridge", process = None)
    /\ UNCHANGED <<process, ready, proc_state, sensitivity, drag_active,
                   conn_state, input_live, last, violation, sens_raw, sens_by,
                   sens_own, commands, helper_owner>>
    /\ UNCHANGED <<streamVars, probes, selected, keyVars,
                   sensVars, startVars, otherVars>>

\* the states a bridge can be in between two calls
BridgeStates ==
    { [process |-> None, ready |-> FALSE, proc_state |-> "exited", live |-> 0],
      [process |-> "proc", ready |-> TRUE, proc_state |-> "alive", live |-> 1],
      [process |-> "proc", ready |-> FALSE, proc_state |-> "alive", live |-> 1],
      [process |-> "proc", ready |-> TRUE, proc_state |-> "dying", live |-> 1],
      [process |-> "proc", ready |-> TRUE, proc_state |-> "exited", live |-> 0],
      [process |-> "proc", ready |-> FALSE, proc_state |-> "exited", live |-> 0] }

\* a capture session streaming or not, with or without its helper session,
\* and a bridge in any of its states
InitStop ==
    /\ fps = 5 /\ quality = 50 /\ monitor = 0
    /\ running \in BOOLEAN
    /\ frame_times = <<>>
    /\ adaptive_quality = quality
    /\ adaptive_fps = fps
    /\ backend = "pipewire"
    /\ \E started \in BOOLEAN :
         /\ pw_session_proc = IF started THEN "proc" ELSE None
         /\ pw_node_id = IF started THEN NodeId ELSE None
         /\ pw_live = IF started THEN 1 ELSE 0
         /\ pw_spawned = started
    /\ error_count = 0
    /\ gpc = "created"
    /\ wpc = "next"
    /\ ws_result = "none"
    /\ conn = "open"
    /\ exit_reason = "none"
    /\ frame_quality = 0
    /\ consec_fail = 0
    /\ fail_sleeps = 0
    /\ frames = 0
    /\ controls = 0
    /\ data = NoData
    /\ \E b \in BridgeStates :
         /\ process = b.process
         /\ ready = b.ready
         /\ proc_state = b.proc_state
         /\ input_live = b.live
    /\ sensitivity = SensDefault
    /\ drag_active = FALSE
    /\ stack = <<>>
    /\ exc = None
    /\ conn_state = [c \in Conns |-> "open"]
    /\ last = [conn |-> 0, type |-> "", value |-> 0, phase |-> "idle",
               result |-> "none", after_violation |-> FALSE,
               any_spawn |-> FALSE, dead_entry |-> FALSE, spawned |-> FALSE,
               readied |-> FALSE, garbled |-> FALSE, spawn_failed |-> FALSE,
               any_ready |-> FALSE, send_ret |-> "none",
               delivered |-> FALSE, used_sens |-> 0]
    /\ violation = FALSE
    /\ sens_raw = SensDefault
    /\ sens_by = 0
    /\ sens_own = [c \in Conns |-> SensDefault]
    /\ commands = 0
    /\ helper_owner = 0
    /\ AuxInit

StopNext ==
    \/ CallStop
    \/ CallStopPipewireSession
    \/ CallBridgeStop
    \/ StartAlreadyRunning
    \/ StartSpawn
    \/ StartSpawnFails
    \/ StartAfterStop
    \/ StopEnter
    \/ StopFinish
    \/ SendRestart
    \/ SendProceed
    \/ SendAfterStart
    \/ SendWrite

(***************************************************************************)
(* The start handshakes, called on a bridge with no running helper.        *)
(***************************************************************************)
\* the polls of _start_pipewire_session, line 109
PwPollBudget == 10

\* what the capture helper prints while _start_pipewire_session polls it:
\* "node" is NODE:<id>, "error" is ERROR:<reason>, "badnode" is NODE:<not
\* an integer>, "other" is any other line, "blank" a poll that reads nothing
PwHelpers ==
    { <<"node">>,
      <<"other", "blank", "node">>,
      <<"other", "other", "error">>,
      [i \in 1..PwPollBudget |-> "blank"] \o <<"node">>,
      <<>>,
      <<"other">>,
      <<"error">>,
      <<"badnode">> }

\* the polling loop of _start_pipewire_session, lines 109-122: n polls left
RECURSIVE PwHandshake(_, _)
PwHandshake(lines, n) ==
    IF n = 0 \/ lines = <<>> THEN "silent"
    ELSE CASE Head(lines) = "node" -> "node"
           [] Head(lines) = "error" -> "error"
           [] Head(lines) = "badnode" -> "badnode"
           [] OTHER -> PwHandshake(Tail(lines), n - 1)

\* the first well-formed status among the first n lines
RECURSIVE FirstStatus(_, _)
FirstStatus(lines, n) ==
    IF n = 0 \/ lines = <<>> THEN "none"
    ELSE IF Head(lines) \in {"node", "error"} THEN Head(lines)
    ELSE IF Head(lines) = "badnode" THEN "malformed"
    ELSE FirstStatus(Tail(lines), n - 1)

\* ScreenCapture._start_pipewire_session, lines 94-131, on a capture object
\* without a session
CallStartPipewireSession ==
    /\ stack = <<>>
    /\ start_call = NoStart
    /\ pw_session_proc = None
    /\ \E h \in PwHelpers :
         /\ SetPw(StartPipewireSession(PwState, PwHandshake(h, PwPollBudget)))
         /\ start_call' = [target |-> "session",
                           status |-> FirstStatus(h, PwPollBudget)]
    /\ UNCHANGED <<fps, quality, monitor, running, frame_times,
                   adaptive_quality, adaptive_fps, backend, error_count, gpc,
                   wpc, ws_result, conn, exit_reason, frame_quality,
                   consec_fail, fail_sleeps, frames, controls>>
    /\ UNCHANGED data
    /\ UNCHANGED <<inputVars, probes, selected, stop_call, keyVars, sensVars,
                   otherVars>>

\* WaylandInputBackend.start(), lines 59-97, is called (by ensure_started);
\* the call runs as the steps StartSpawn, StartAfterStop and those of the
\* stop, _send and start it makes.
CallBridgeStart ==
    /\ stack = <<>>
    /\ start_call = NoStart
    /\ stack' = <<Frame("start", "check", 0, "", 0)>>
    /\ exc' = None
    /\ start_call' = [target |-> "bridge", status |-> "none"]
    /\ UNCHANGED <<process, ready, proc_state, sensitivity, drag_active,
                   conn_state, input_live, last, violation, sens_raw, sens_by,
                   sens_own, commands, helper_owner>>
    /\ UNCHANGED <<streamVars, probes, selected, stop_call, keyVars, sensVars,
                   otherVars>>

StartNext ==
    \/ CallStartPipewireSession
    \/ CallBridgeStart
    \/ StartAlreadyRunning
    \/ StartSpawn
    \/ StartSpawnFails
    \/ StartAfterStop
    \/ StopEnter
    \/ StopFinish
    \/ SendRestart
    \/ SendProceed
    \/ SendAfterStart
    \/ SendWrite

(***************************************************************************)
(* The rate adaptation under a backend of fixed capture latency.           *)
(***************************************************************************)
\* configured rates (the fps query parameter is any integer) and the fixed
\* latencies of the backend, in ms
AdaptFps == 1..6
AdaptLatencies == {10, 100, 400, 1200, 2000}

\* stream_frames, lines 371-372, for one more frame of a backend whose
\* captures all take the same time.
AdaptFrame ==
    /\ frames < MaxSamples
    /\ \E l \in AdaptLatencies :
         /\ IF frame_times = <<>> THEN TRUE ELSE l = frame_times[1]
         /\ LET u == UpdateAdaptive(frame_times, fps, quality, adaptive_fps,
                                    adaptive_quality, l)
            IN  /\ ~u.raised
                /\ frame_times' = u.ft
                /\ adaptive_fps' = u.afps
                /\ adaptive_quality' = u.aq
    /\ frames' = frames + 1
    /\ UNCHANGED <<fps, quality, monitor, running, pw_node_id, pw_session_proc,
                   backend, error_count, gpc, wpc, ws_result, conn, pw_live,
                   exit_reason, frame_quality, consec_fail, fail_sleeps,
                   controls, pw_spawned, data>>
    /\ UNCHANGED <<inputVars, auxVars>>

\* a stream about to capture its first frame: stream_frames has set
\* _adaptive_fps to the configured fps (line 330)
InitAdapt ==
    /\ fps \in AdaptFps
    /\ quality = 50 /\ monitor = 0
    /\ running = TRUE
    /\ frame_times = <<>>
    /\ adaptive_quality = quality
    /\ adaptive_fps = fps
    /\ pw_node_id = None
    /\ pw_session_proc = None
    /\ backend = "mss"
    /\ error_count = 0
    /\ gpc = "top"
    /\ wpc = "next"
    /\ ws_result = "none"
    /\ conn = "open"
    /\ pw_live = 0
    /\ exit_reason = "none"
    /\ frame_quality = 0
    /\ consec_fail = 0
    /\ fail_sleeps = 0
    /\ frames = 0
    /\ controls = 0
    /\ pw_spawned = FALSE
    /\ data = NoData
    /\ InputInit
    /\ AuxInit

(***************************************************************************)
(* The rate adaptation under a backend whose capture latency alternates.   *)
(***************************************************************************)
\* the configured rate and the two latencies (ms) of the backend
ScenarioFps == 10
SlowLatency == 130
FastLatency == 40

\* stream_frames, lines 371-372, for one more frame of a backend whose
\* captures take SlowLatency and FastLatency in turn (either may come first).
AlternatingFrame ==
    /\ frames < MaxScenarioFrames
    /\ \E l \in {SlowLatency, FastLatency} :
         /\ IF frame_times = <<>> THEN TRUE
            ELSE l # frame_times[Len(frame_times)]
         /\ LET u == UpdateAdaptive(frame_times, fps, quality, adaptive_fps,
                                    adaptive_quality, l)
            IN  /\ ~u.raised
                /\ frame_times' = u.ft
                /\ adaptive_fps' = u.afps
                /\ adaptive_quality' = u.aq
                /\ frame_quality' = adaptive_quality
    /\ frames' = frames + 1
    /\ UNCHANGED <<fps, quality, monitor, running, pw_node_id, pw_session_proc,
                   backend, error_count, gpc, wpc, ws_result, conn, pw_live,
                   exit_reason, consec_fail, fail_sleeps,
                   controls, pw_spawned, data>>
    /\ UNCHANGED <<inputVars, auxVars>>

\* a stream configured with ScenarioFps and quality 50, about to capture its
\* first frame (stream_frames lines 328-330)
InitAlternating ==
    /\ fps = ScenarioFps
    /\ quality = 50 /\ monitor = 0
    /\ running = TRUE
    /\ frame_times = <<>>
    /\ adaptive_quality = quality
    /\ adaptive_fps = fps
    /\ pw_node_id = None
    /\ pw_session_proc = None
    /\ backend = "mss"
    /\ error_count = 0
    /\ gpc = "top"
    /\ wpc = "next"
    /\ ws_result = "none"
    /\ conn = "open"
    /\ pw_live = 0
    /\ exit_reason = "none"
    /\ frame_quality = 0
    /\ consec_fail = 0
    /\ fail_sleeps = 0
    /\ frames = 0
    /\ controls = 0
    /\ pw_spawned = FALSE
    /\ data = NoData
    /\ InputInit
    /\ AuxInit

(***************************************************************************)
(* stream_frames under failing iterations.  One action is one iteration of *)
(* the loop of lines 337-385 with a consumer that takes every frame and    *)
(* asks for the next; consec_fail counts the iterations in a row that      *)
(* ended in the failure branch of lines 361-367 or in the except of lines  *)
(* 380-385.                                                                *)
(***************************************************************************)
\* the rates a stream can run with: the default, and 0 once a
\* {"type":"set_fps","fps":0} message was handled (main.py 220-222)
PersistFps == {0, 5}

\* an iteration whose acquisition returns no frame or raises
IterationAcquireFails ==
    /\ gpc = "top" /\ running
    /\ frames < MaxIterations
    /\ \E r \in {x \in AcquireResults : x.kind # "frame"} :
         /\ error_count' = error_count + 1
         /\ consec_fail' = consec_fail + 1
         /\ IF TooManyErrors(error_count + 1)
            THEN /\ Finish(r.pw, "errors")
                 /\ UNCHANGED fail_sleeps
            ELSE /\ SetPw(r.pw)
                 /\ fail_sleeps' = fail_sleeps + 1
                 /\ UNCHANGED <<running, gpc, exit_reason>>
    /\ frames' = frames + 1
    /\ UNCHANGED <<fps, quality, monitor, frame_times, adaptive_quality,
                   adaptive_fps, backend, wpc, ws_result, conn, frame_quality,
                   controls, data>>
    /\ UNCHANGED <<inputVars, auxVars>>

\* an iteration whose acquisition succeeds: line 369 resets the counter;
\* _update_adaptive (372) or the pacing division of line 376, after the
\* yield, may raise, and the except of line 380 then counts from 0
IterationAcquires ==
    /\ gpc = "top" /\ running
    /\ frames < MaxIterations
    /\ \E r \in {x \in AcquireResults : x.kind = "frame"}, l \in {10} :
         LET u == UpdateAdaptive(frame_times, fps, quality, adaptive_fps,
                                 adaptive_quality, l)
             failed == u.raised \/ u.afps = 0
         IN  /\ SetPw(r.pw)
             /\ frame_times' = u.ft
             /\ adaptive_fps' = u.afps
             /\ adaptive_quality' = u.aq
             /\ frame_quality' = IF u.raised THEN frame_quality
                                 ELSE adaptive_quality
             /\ error_count' = IF failed THEN 1 ELSE 0
             /\ consec_fail' = IF failed THEN consec_fail + 1 ELSE 0
             /\ fail_sleeps' = IF failed THEN fail_sleeps + 1 ELSE 0
    /\ frames' = frames + 1
    /\ UNCHANGED <<fps, quality, monitor, running, backend, gpc, wpc,
                   ws_result, conn, exit_reason, controls, data>>
    /\ UNCHANGED <<inputVars, auxVars>>

PersistNext == IterationAcquireFails \/ IterationAcquires

\* a running stream at the top of its loop
InitPersist ==
    /\ fps \in PersistFps
    /\ quality = 50 /\ monitor = 0
    /\ running = TRUE
    /\ frame_times = <<>>
    /\ adaptive_quality = quality
    /\ adaptive_fps = fps
    /\ pw_node_id = None
    /\ pw_session_proc = None
    /\ backend = "mss"
    /\ error_count = 0
    /\ gpc = "top"
    /\ wpc = "next"
    /\ ws_result = "none"
    /\ conn = "open"
    /\ pw_live = 0
    /\ exit_reason = "none"
    /\ frame_quality = 0
    /\ consec_fail = 0
    /\ fail_sleeps = 0
    /\ frames = 0
    /\ controls = 0
    /\ pw_spawned = FALSE
    /\ data = NoData
    /\ InputInit
    /\ AuxInit

\* a capture object without a session and a bridge without a running helper
InitStart ==
    /\ fps = 5 /\ quality = 50 /\ monitor = 0
    /\ running = FALSE
    /\ frame_times = <<>>
    /\ adaptive_quality = quality
    /\ adaptive_fps = fps
    /\ backend = "pipewire"
    /\ pw_session_proc = None
    /\ pw_node_id = None
    /\ pw_live = 0
    /\ pw_spawned = FALSE
    /\ error_count = 0
    /\ gpc = "top"
    /\ wpc = "next"
    /\ ws_result = "none"
    /\ conn = "open"
    /\ exit_reason = "none"
    /\ frame_quality = 0
    /\ consec_fail = 0
    /\ fail_sleeps = 0
    /\ frames = 0
    /\ controls = 0
    /\ data = NoData
    /\ \E b \in {x \in BridgeStates : x.proc_state = "exited"} :
         /\ process = b.process
         /\ ready = b.ready
         /\ proc_state = b.proc_state
         /\ input_live = b.live
    /\ sensitivity = SensDefault
    /\ drag_active = FALSE
    /\ stack = <<>>
    /\ exc = None
    /\ conn_state = [c \in Conns |-> "open"]
    /\ last = [conn |-> 0, type |-> "", value |-> 0, phase |-> "idle",
               result |-> "none", after_violation |-> FALSE,
               any_spawn |-> FALSE, dead_entry |-> FALSE, spawned |-> FALSE,
               readied |-> FALSE, garbled |-> FALSE, spawn_failed |-> FALSE,
               any_ready |-> FALSE, send_ret |-> "none",
               delivered |-> FALSE, used_sens |-> 0]
    /\ violation = FALSE
    /\ sens_raw = SensDefault
    /\ sens_by = 0
    /\ sens_own = [c \in Conns |-> SensDefault]
    /\ commands = 0
    /\ helper_owner = 0
    /\ AuxInit

\* a server with a stream just opened and no input command yet
InitStream == StreamInit /\ InputInit /\ AuxInit

\* the streaming side at rest while the input side runs
InitInput ==
    /\ InputInit
    /\ StreamInit
    /\ fps = 5 /\ quality = 50 /\ monitor = 0 /\ backend = "mss"
    /\ AuxInit

\* a capture session about to be created, under any probe outcomes
InitSelect ==
    /\ InputInit
    /\ StreamInit
    /\ fps = 5 /\ quality = 50 /\ monitor = 0 /\ backend = "mss"
    /\ probes \in ProbeOutcomes
    /\ selected = None
    /\ stop_call = NoCall
    /\ KeyInit
    /\ SensInit
    /\ start_call = NoStart
    /\ OtherInit

\* a key name about to be resolved, the server otherwise at rest
InitResolve ==
    /\ InputInit
    /\ StreamInit
    /\ fps = 5 /\ quality = 50 /\ monitor = 0 /\ backend = "mss"
    /\ probes = [wayland |-> FALSE, gdbus |-> "missing",
                 which_missing |-> FALSE,
                 tool |-> [t \in {Tools[i] : i \in 1..Len(Tools)} |->
                              "notfound"]]
    /\ selected = None
    /\ stop_call = NoCall
    /\ key \in Keys
    /\ x11_key = None
    /\ x11_mod = None
    /\ keysym = Unresolved
    /\ kcmd = NoCommand
    /\ hpc = "idle"
    /\ plan = <<>>
    /\ events = <<>>
    /\ wire = <<>>
    /\ kresult = "none"
    /\ SensInit
    /\ start_call = NoStart
    /\ OtherInit

\* a router the sensitivity of which is set, the server otherwise at rest
InitSens == InputInit /\ StreamInit /\ fps = 5 /\ quality = 50 /\ monitor = 0
                /\ backend = "mss" /\ AuxInit

\* a router whose bridge has a ready helper, no keyboard command sent yet
InitKeys ==
    /\ StreamInit
    /\ fps = 5 /\ quality = 50 /\ monitor = 0 /\ backend = "mss"
    /\ process = "proc"
    /\ ready = TRUE
    /\ proc_state = "alive"
    /\ sensitivity = SensDefault
    /\ drag_active = FALSE
    /\ stack = <<>>
    /\ exc = None
    /\ conn_state = [c \in Conns |-> "open"]
    /\ input_live = 1
    /\ last = [conn |-> 0, type |-> "", value |-> 0, phase |-> "idle",
               result |-> "none", after_violation |-> FALSE,
               any_spawn |-> FALSE, dead_entry |-> FALSE, spawned |-> FALSE,
               readied |-> FALSE, garbled |-> FALSE, spawn_failed |-> FALSE,
               any_ready |-> FALSE, send_ret |-> "none",
               delivered |-> FALSE, used_sens |-> 0]
    /\ violation = FALSE
    /\ sens_raw = SensDefault
    /\ sens_by = 0
    /\ sens_own = [c \in Conns |-> SensDefault]
    /\ commands = 0
    /\ helper_owner = 1
    /\ AuxInit

(***************************************************************************)
(* stream_frames of a session whose owner may call stop() at any moment,   *)
(* its consumer taking every frame and asking for the next.                *)
(***************************************************************************)
\* Line 337: the while condition finds _running cleared; the loop is left,
\* the finally block runs and the consumer's async for ends.
GenLoopExit ==
    /\ gpc = "top" /\ wpc = "next" /\ ~running
    /\ Finish(PwState, "stopped")
    /\ wpc' = "finally"
    /\ ws_result' = "normal"
    /\ UNCHANGED <<fps, quality, monitor, frame_times, adaptive_quality,
                   adaptive_fps, backend, error_count, conn, frame_quality,
                   consec_fail, fail_sleeps, frames, controls, data>>
    /\ UNCHANGED <<inputVars, auxVars>>

OwnerStopNext ==
    \/ GenStart
    \/ GenStartSpawnFails
    \/ IterFrame
    \/ IterFail
    \/ GenResume
    \/ GenLoopExit
    \/ WsSend
    \/ WsRecvTimeout
    \/ WsFinally
    \/ CallStop

\* a session just created, its sequence not started yet
InitOwnerStop == StreamInit /\ conn = "open" /\ InputInit /\ AuxInit

\* a capture object any capture_frame call may find: created with any fps
\* and quality on any backend, not streaming; on the pipewire backend its
\* helper session may be up (an earlier capture has started it)
InitCapture ==
    /\ fps \in CreateFps
    /\ quality \in Qualities
    /\ monitor = 0
    /\ running = FALSE
    /\ frame_times = <<>>
    /\ adaptive_quality = quality
    /\ adaptive_fps = fps
    /\ backend \in CaptureBackends
    /\ \E started \in {s \in BOOLEAN : s => backend = "pipewire"} :
         /\ pw_session_proc = IF started THEN "proc" ELSE None
         /\ pw_node_id = IF started THEN NodeId ELSE None
         /\ pw_live = IF started THEN 1 ELSE 0
         /\ pw_spawned = started
    /\ error_count = 0
    /\ gpc = "created"
    /\ wpc = "next"
    /\ ws_result = "none"
    /\ conn = "open"
    /\ exit_reason = "none"
    /\ frame_quality = 0
    /\ consec_fail = 0
    /\ fail_sleeps = 0
    /\ frames = 0
    /\ controls = 0
    /\ data = NoData
    /\ InputInit
    /\ AuxInit

\* the login route of a server otherwise at rest
InitAuth == InputInit /\ StreamInit /\ fps = 5 /\ quality = 50 /\ monitor = 0
                /\ backend = "mss" /\ AuxInit

SpecStream == InitStream /\ [][StreamNext]_vars

SpecInput == InitInput /\ [][InputNext]_vars

SpecStop == InitStop /\ [][StopNext]_vars

SpecSelect == InitSelect /\ [][CreateCapture]_vars

SpecAdapt == InitAdapt /\ [][AdaptFrame]_vars

SpecAlternating == InitAlternating /\ [][AlternatingFrame]_vars

SpecResolve == InitResolve /\ [][ResolveKey]_vars

SpecKeys == InitKeys /\ [][KeysNext]_vars

SpecSens == InitSens /\ [][SensNext]_vars

SpecPersist == InitPersist /\ [][PersistNext]_vars

SpecStart == InitStart /\ [][StartNext]_vars

SpecOwnerStop == InitOwnerStop /\ [][OwnerStopNext]_vars

SpecCapture == InitCapture /\ [][CaptureNext]_vars

SpecPair == InitKeys /\ [][PairNext]_vars

SpecAuth == InitAuth /\ [][AuthNext]_vars

(***************************************************************************)
(* Properties of the streaming session (SpecStream).                       *)
(***************************************************************************)

\* C1: whenever the generator is suspended at its yield (a frame has been
\* yielded and the consumer holds it, having handled any control message
\* since), adaptive_quality equals the configured quality.
C1_QualityNeverThrottled ==
    gpc = "yielded" => adaptive_quality = quality

\* A frame has just been yielded after a control message was handled and
\* with enough samples for the rate adaptation to run.
C1_Witness ==
    /\ gpc = "yielded" /\ wpc = "send"
    /\ controls >= 1
    /\ Len(frame_times) >= MinSamples

\* C2: at every yielded frame 3 <= adaptive_fps <= configured fps, for every
\* configured fps, values below 3 included.
C2_AdaptiveFpsInRange ==
    gpc = "yielded" => (MinFps <= adaptive_fps /\ adaptive_fps <= fps)

\* C3: acquisition never fails more than 11 times in a row; at the 11th
\* consecutive failure the sequence is finished by error exhaustion, no
\* exception has reached the consumer and each of the first 10 failures was
\* followed by a sleep; the sequence never ends by error exhaustion below
\* the threshold; and a frame is yielded only with the counter back at 0.
C3_ErrorExhaustion ==
    /\ consec_fail <= MaxErrors + 1
    /\ consec_fail = MaxErrors + 1 =>
          /\ gpc = "done" /\ exit_reason = "errors"
          /\ ws_result # "exception"
          /\ fail_sleeps = MaxErrors
    /\ exit_reason = "errors" => error_count = MaxErrors + 1
    /\ gpc = "yielded" => (error_count = 0 /\ consec_fail = 0)

\* Eleven failures in a row after at least one delivered frame.
C3_Witness ==
    /\ consec_fail = MaxErrors + 1
    /\ frames >= 1
    /\ gpc = "done"

C5_ClosedStreamReleased ==
    wpc = "done" => pw_live = 0

\* C15: a control message that is no set_quality, set_fps or set_monitor
\* mapping (another type, a value that is no mapping, text that is not JSON)
\* is ignored: the configured and adaptive values stay and the handler asks
\* for the next frame.
C15_OtherMessagesIgnored ==
    [][ (wpc = "recv" /\ data'.type \in {"ping", "undecodable"})
          => /\ UNCHANGED <<fps, adaptive_fps, quality, adaptive_quality,
                            monitor>>
             /\ wpc' = "next" ]_vars

\* C19: a set_quality message handled between two frames sets the quality
\* every later frame is encoded at (each frame handed to the connection was
\* encoded at the quality configured then), and leaves adaptive_fps, the
\* configured fps and the monitor as they were.
C19_SetQualityTakesEffect ==
    /\ [](wpc = "send" => frame_quality = quality)
    /\ [][ (wpc = "recv" /\ data'.type = "set_quality")
             => /\ quality' = data'.value
                /\ UNCHANGED <<adaptive_fps, fps, monitor>> ]_vars

C19_Witness ==
    /\ gpc = "yielded" /\ wpc = "next"
    /\ data.type = "set_quality" /\ data.value # frame_quality
    /\ quality = data.value
    /\ adaptive_fps < fps

(***************************************************************************)
(* Properties of the input router and its bridge (SpecInput).              *)
(***************************************************************************)
Done == last.phase = "done"

\* C6: a command's call on the bridge that finds it dead (no process, the
\* process gone, or marked not ready) re-runs the start protocol, and when
\* the helper stays silent, reports an error status or exits before it is
\* ready, the call returns "Input backend not available" without raising.
C6_DeadCallRestarts ==
    (Done /\ last.dead_entry) =>
        /\ last.spawned
        /\ (~last.readied /\ ~last.garbled /\ ~last.spawn_failed)
               => last.send_ret = "not_available"

\* C7: when the helper cannot be brought up for a mouse or keyboard command
\* (the spawn or the handshake fails), process_command returns the error
\* form: neither ok nor an exception.
C7_UnavailableIsError ==
    (/\ Done
     /\ last.type \in BridgeCommands
     /\ last.result = "raised" \/ last.send_ret \in {"not_available", "raised"})
        => last.result = "error"

\* C8: process_command returns ok or the error form for every command and
\* every behaviour of the backend: no exception leaves it.
C8_NoExceptionEscapes == Done => last.result \in {"ok", "error"}

\* C9: the command that follows a protocol violation (a malformed response,
\* an I/O error) re-runs the start protocol with a fresh helper, and when
\* that helper reports ready the command is delivered to it.
C9_RestartAfterViolation ==
    (/\ Done
     /\ last.type \in BridgeCommands
     /\ last.after_violation)
        => /\ last.any_spawn
           /\ last.any_ready => last.delivered

C11_HelperStoppedOnClose ==
    (input_live > 0 /\ helper_owner # 0) => conn_state[helper_owner] = "open"

\* C13: a command of an unknown type gets the error form as its result and
\* leaves the input channel as it was: the connection's handler goes on.
C13_UnknownCommandIsError ==
    (Done /\ last.type \notin BridgeCommands \cup {"set_sensitivity"})
        => /\ last.result = "error"
           /\ conn_state[last.conn] # "failed"

\* C14: a message that is not JSON is answered with the "Invalid JSON"
\* error, runs no command (the router and the bridge are untouched) and
\* leaves the connection open.
C14_InvalidJsonAnswered ==
    [][ RecvUndecodable =>
          /\ last'.result = "invalid_json"
          /\ conn_state' = conn_state
          /\ conn_state[last'.conn] = "open"
          /\ UNCHANGED <<process, ready, proc_state, sensitivity, drag_active,
                         stack, exc, input_live>> ]_vars

C14_Witness ==
    /\ last.phase = "replied" /\ last.result = "invalid_json"
    /\ conn_state[last.conn] = "open"
    /\ ready /\ commands = MaxCommands

(***************************************************************************)
(* Properties of the stop operations (SpecStop).                           *)
(***************************************************************************)
\* C12: stop is idempotent: ScreenCapture.stop() on a session that is not
\* running, _stop_pipewire_session() without a helper session and
\* WaylandInputBackend.stop() without a helper process change nothing, send
\* nothing, spawn nothing and raise nothing.
C12_StopIdempotent ==
    [][ /\ (CallStop /\ ~running) => UNCHANGED streamVars
        /\ (CallStopPipewireSession /\ pw_session_proc = None)
               => UNCHANGED streamVars
        /\ (At("stop", "check") /\ process = None)
               => /\ stack' = Pop
                  /\ exc' = None
                  /\ UNCHANGED <<process, ready, proc_state, input_live,
                                 helper_owner>> ]_vars

C12_Witness ==
    /\ stack = <<>> /\ exc = None
    /\ stop_call.seen = {"capture", "session", "bridge"}
    /\ stop_call.target = "bridge" /\ stop_call.was_stopped
    /\ ~running /\ pw_session_proc = None /\ process = None

\* C28: a stop call on either bridge ends with the process handle released
\* and the readiness flag / node id cleared and no helper of that bridge
\* running; and the input bridge never goes on to wait for, terminate or
\* kill a live helper to which the stop token has not been written.
C28_StopSequence ==
    /\ [](/\ (stack = <<>> /\ stop_call.target = "bridge") =>
                (process = None /\ ~ready /\ input_live = 0)
          /\ stop_call.target = "session" =>
                (pw_session_proc = None /\ pw_node_id = None /\ pw_live = 0))
    /\ [][ (At("stop", "after_send") /\ process # None /\ process' = None)
              => proc_state # "alive" ]_vars

(***************************************************************************)
(* Properties of the backend selection (SpecSelect).                       *)
(***************************************************************************)
ToolSet == {Tools[i] : i \in 1..Len(Tools)}

\* the four kinds of backend: direct framebuffer, compositor stream, CLI
\* tool, fallback
BackendKind(b) ==
    CASE b = "mss" -> "direct"
      [] b = "pipewire" -> "stream"
      [] b \in ToolSet -> "cli"
      [] b = "mss-fallback" -> "fallback"
      [] OTHER -> "none"

\* every probe says present or absent (an exception the probe catches is
\* absent)
Plain(p) == p.gdbus # "oserror" /\ \A t \in ToolSet : p.tool[t] # "oserror"

Resolvable(p, t) == ~p.which_missing /\ p.tool[t] = "found"

\* C16: whatever the probes say (session type, interface present or not,
\* each tool resolvable or not), a selection returns one of the four kinds
\* of backend, and selecting again under the same outcomes returns the same.
C16_SelectsOneKind ==
    /\ [](selected # None /\ Plain(probes)
            => BackendKind(selected) \in {"direct", "stream", "cli", "fallback"})
    /\ [][(selected # None /\ Plain(probes)) => selected' = selected]_vars

C16_Witness ==
    /\ selected = "mss-fallback"
    /\ probes.wayland /\ probes.gdbus = "timeout" /\ probes.which_missing
    /\ Plain(probes)

\* C17: the fixed priority: a direct-access session selects the direct
\* framebuffer whatever the other probes say; a compositor session selects
\* the compositor stream when the interface is there, else the first
\* resolvable of grim, gnome-screenshot, spectacle, else the fallback.
C17_Priority ==
    selected # None =>
        /\ ~probes.wayland => selected = "mss"
        /\ (probes.wayland /\ Plain(probes)) =>
              selected =
                IF probes.gdbus = "zero" THEN "pipewire"
                ELSE IF Resolvable(probes, "grim") THEN "grim"
                ELSE IF Resolvable(probes, "gnome-screenshot")
                     THEN "gnome-screenshot"
                ELSE IF Resolvable(probes, "spectacle") THEN "spectacle"
                ELSE "mss-fallback"

C17_Witness ==
    /\ selected = "gnome-screenshot"
    /\ probes.wayland /\ probes.gdbus = "nonzero" /\ ~probes.which_missing
    /\ probes.tool["grim"] = "notfound"
    /\ probes.tool["spectacle"] = "found"

\* C18: an exception of a probe counts as "not available": the selection
\* goes on to the next candidate and the capture session is created.
C18_ProbeExceptionIsAbsent ==
    selected # None =>
        /\ selected # "raised"
        /\ probes.wayland =>
              selected =
                IF probes.gdbus = "zero" THEN "pipewire"
                ELSE IF Resolvable(probes, "grim") THEN "grim"
                ELSE IF Resolvable(probes, "gnome-screenshot")
                     THEN "gnome-screenshot"
                ELSE IF Resolvable(probes, "spectacle") THEN "spectacle"
                ELSE "mss-fallback"

(***************************************************************************)
(* Properties of the rate adaptation (SpecAdapt).                          *)
(***************************************************************************)
\* C20: with a fixed latency l and a configured rate fps, from the fifth
\* sample on: when l > 1.5/fps the adaptive rate goes down by at least one
\* at every frame until it is 3 and then stays 3; when l < 0.5/fps it goes
\* up at every frame until it is fps and then stays fps.
C20_FixedLatencyMonotone ==
    [][ (frames' = frames + 1 /\ Len(frame_times') >= MinSamples) =>
          LET l == frame_times'[1]
          IN  /\ 2 * l * fps > 3 * Second =>
                    IF adaptive_fps = MinFps THEN adaptive_fps' = MinFps
                    ELSE adaptive_fps' < adaptive_fps
              /\ 2 * l * fps < Second =>
                    IF adaptive_fps = fps THEN adaptive_fps' = fps
                    ELSE adaptive_fps' > adaptive_fps ]_vars

(***************************************************************************)
(* Properties of the rate adaptation under alternating latency             *)
(* (SpecAlternating).                                                      *)
(***************************************************************************)
\* the number of slow captures among the frames so far
SlowSeen ==
    IF frames = 0 THEN 0
    ELSE IF frame_times[Len(frame_times)] = SlowLatency
         THEN (frames + 1) \div 2
         ELSE frames \div 2

\* C21 (as stated): with fps 10, quality 50 and latencies alternating
\* 130 ms / 40 ms, adaptive_fps is 9 once 6 slow frames have been captured
\* and from then on, and every frame is encoded with quality 50.
C21_DropsToNine ==
    /\ SlowSeen >= 6 => adaptive_fps = 9
    /\ frames > 0 => frame_quality = 50

\* C21 (as the code behaves): with fps 10, quality 50 and latencies
\* alternating 130 ms / 40 ms, the window average stays between 0.5 and 1.5
\* times the 100 ms target, so adaptive_fps is 10 at every frame, and every
\* frame is encoded with quality 50.
C21_AlternatingKeepsRate ==
    /\ adaptive_fps = ScenarioFps
    /\ adaptive_quality = 50
    /\ frames > 0 => frame_quality = 50

C21_Witness ==
    /\ SlowSeen >= 6
    /\ Len(frame_times) = WindowSize
    /\ frames > WindowSize
    /\ adaptive_fps = ScenarioFps

(***************************************************************************)
(* Properties of the key resolution (SpecResolve).                         *)
(***************************************************************************)
\* the symbolic names: modifier names and special-key names
SymbolicNames == DOMAIN MODIFIER_MAP \cup DOMAIN SPECIAL_KEYS

\* C23a: the spellings of a symbolic name that differ only in case resolve
\* to the same key and the same modifier on the direct backend and to the
\* same keysym on the compositor backend.
C23_CaseInsensitive ==
    (keysym # Unresolved /\ Lower(key) \in SymbolicNames) =>
        \A k \in Keys :
            Lower(k) = Lower(key) =>
                /\ X11ResolveKey(k) = x11_key
                /\ X11ResolveModifier(k) = x11_mod
                /\ ResolveKeysym(k) = keysym

\* C23: key resolution is case-insensitive for symbolic names on both
\* backends, and a single character, which is never a symbolic name,
\* resolves to itself on the direct backend and to its codepoint on the
\* compositor backend.
C23_KeyResolution ==
    /\ C23_CaseInsensitive
    /\ (keysym # Unresolved /\ key \in Chars) =>
            /\ x11_key = key
            /\ keysym = Ord[key]

(***************************************************************************)
(* Properties of the keyboard commands on the compositor path (SpecKeys).  *)
(***************************************************************************)
\* _send has returned for the command sent last
KeyHandled == kcmd # NoCommand /\ kresult # "none"

\* C22: type_text "Hi!" makes three key_press requests on the pipe, for H,
\* i and ! in this order, each followed by its response before the next
\* request is written.
C22_ThreeRoundTrips ==
    (KeyHandled /\ kcmd.type = "type_text" /\ kcmd.keys = <<"H", "i", "!">>
        /\ kresult = "ok") =>
        wire = << Request([type |-> "key_press", key |-> "H", keys |-> <<>>]),
                  Response("ok"),
                  Request([type |-> "key_press", key |-> "i", keys |-> <<>>]),
                  Response("ok"),
                  Request([type |-> "key_press", key |-> "!", keys |-> <<>>]),
                  Response("ok") >>

(***************************************************************************)
(* Properties of the router's sensitivity (SpecSens).                      *)
(***************************************************************************)
\* C24: the sensitivity is within [0.1, 5.0] after any sequence of
\* commands; a set_sensitivity that succeeds stores the value given, or the
\* nearer bound when the value is out of range; a set_sensitivity that
\* fails, and a command of another type, leave the factor unchanged.
C24_SensitivityClamped ==
    /\ SensMin <= sensitivity /\ sensitivity <= SensMax
    /\ (sens_in.kind = "number" /\ sens_result = "ok") =>
            sensitivity = IF sens_in.v < SensMin THEN SensMin
                          ELSE IF sens_in.v > SensMax THEN SensMax
                          ELSE sens_in.v
    /\ (sens_in.kind = "missing" /\ sens_result = "ok") =>
            sensitivity = SensDefault
    /\ (sens_result \in {"error", "exception"} \/ sens_in = NoSensInput) =>
            sensitivity = sens_before

\* a value above the range was clamped, and a failing command followed
C24_Witness ==
    /\ sens_result = "error"
    /\ sens_in.kind = "text"
    /\ sens_before = SensMax
    /\ sensitivity = SensMax

(***************************************************************************)
(* Properties of the rate-adaptation function (SpecAdapt).                 *)
(***************************************************************************)
\* C25: one call of the rate adaptation keeps at most the last 30 samples,
\* the newest last; with fewer than 5 samples it changes neither rate nor
\* quality; otherwise, against the target interval of the configured fps,
\* an average above 1.5 times the target lowers adaptive_fps by exactly 1
\* unless that would go below 3, an average below 0.5 times the target
\* raises it by exactly 1 unless that would go above the configured fps,
\* and any other average leaves it unchanged.
C25_AdaptationRule ==
    [][ frames' = frames + 1 =>
          LET n == Len(frame_times')
              s == SumSeq(frame_times')
          IN  /\ n <= WindowSize
              /\ frame_times' =
                    LastN(Append(frame_times, frame_times'[n]), WindowSize)
              /\ n < MinSamples =>
                    /\ adaptive_fps' = adaptive_fps
                    /\ adaptive_quality' = adaptive_quality
              /\ (n >= MinSamples /\ 2 * s * fps > 3 * Second * n) =>
                    adaptive_fps' = IF adaptive_fps - 1 >= MinFps
                                    THEN adaptive_fps - 1 ELSE adaptive_fps
              /\ (n >= MinSamples /\ 2 * s * fps < Second * n) =>
                    adaptive_fps' = IF adaptive_fps + 1 <= fps
                                    THEN adaptive_fps + 1 ELSE adaptive_fps
              /\ (n >= MinSamples /\ 2 * s * fps <= 3 * Second * n
                     /\ 2 * s * fps >= Second * n) =>
                    adaptive_fps' = adaptive_fps ]_vars

(***************************************************************************)
(* Properties of the frame loop under persistent failure (SpecPersist).    *)
(***************************************************************************)
\* C26: whatever makes the iterations fail, there are never more than 11
\* failed iterations in a row, and the 11th ends the sequence.
C26_FiniteUnderFailure ==
    /\ consec_fail <= MaxErrors + 1
    /\ consec_fail = MaxErrors + 1 => gpc = "done"

(***************************************************************************)
(* Properties of the start handshakes (SpecStart).                         *)
(***************************************************************************)
\* the start call made on target has returned
StartReturned(target) == start_call.target = target /\ stack = <<>>

\* C27: in either handshake a line that is not a status does not end the
\* polling (the capture session gets the node of the first status within
\* the polls; no handshake of the input bridge is ended by a line that is
\* not JSON); and when the start call returns without a ready helper, no
\* process handle is held, the identifier or flag is clear and no helper of
\* that bridge is running.
C27_HandshakeTolerant ==
    /\ StartReturned("session") =>
          /\ start_call.status = "node" =>
                (pw_node_id = NodeId /\ pw_session_proc # None /\ pw_live = 1)
          /\ start_call.status # "node" =>
                (pw_node_id = None /\ pw_session_proc = None /\ pw_live = 0)
    /\ (StartReturned("bridge") /\ last.any_spawn) =>
          /\ ~last.garbled
          /\ ~ready => (process = None /\ input_live = 0)
\* the helper has printed its response to the command sent last
HelperAnswered == kcmd # NoCommand /\ Len(wire) = 2
AnsweredOk == HelperAnswered /\ wire[2] = Response("ok")

NonZero(x) == x # 0
IsPrefix(a, b) == Len(a) <= Len(b) /\ a = SubSeq(b, 1, Len(a))

\* the keysyms of the names that have one, in the order given
Pressable(names) == SelectSeq(Resolved(names), NonZero)

\* presses of a sequence of keysyms in order, releases in reverse order
PressAll(syms) == [i \in 1..Len(syms) |-> KeyEvent(syms[i], TRUE)]
ReleaseAllReversed(syms) ==
    [i \in 1..Len(syms) |-> KeyEvent(syms[Len(syms) + 1 - i], FALSE)]

\* the keysyms the events so far have pressed and not released
StillPressed ==
    {e.keysym : e \in
        {events[i] : i \in {j \in 1..Len(events) :
            /\ events[j].state
            /\ ~\E k \in (j + 1)..Len(events) :
                   events[k] = KeyEvent(events[j].keysym, FALSE)}}}

\* C29: for a key_press with modifiers the key events are emitted in this
\* order: the modifiers (those that have a keysym) pressed in the order
\* given, the main key pressed and released, the modifiers released in the
\* reverse order; the events emitted so far are always a beginning of that
\* sequence and are all of it once the helper has answered ok.
C29_ModifierOrder ==
    (kcmd.type = "key_press" /\ kcmd.keys # <<>>) =>
        LET mods == Pressable(kcmd.keys)
            main == Pressable(<<kcmd.key>>)
            order == PressAll(mods) \o PressAll(main)
                         \o ReleaseAllReversed(main)
                         \o ReleaseAllReversed(mods)
        IN  /\ IsPrefix(events, order)
            /\ AnsweredOk => events = order

\* two modifiers around a key, all six events emitted and acknowledged
C29_Witness ==
    /\ kcmd = [type |-> "key_press", key |-> "c", keys |-> <<"Ctrl", "shift">>]
    /\ AnsweredOk
    /\ kresult = "ok"
    /\ Len(events) = 6
    /\ events[1] = KeyEvent(65507, TRUE)
    /\ events[6] = KeyEvent(65507, FALSE)

\* C30: for a key_combo the keys that have a keysym are pressed in input
\* order and then released in reverse order, and once the helper has
\* answered the command no key the command pressed is still pressed.
C30_ComboReleased ==
    kcmd.type = "key_combo" =>
        LET syms == Pressable(kcmd.keys)
        IN  /\ IsPrefix(events, PressAll(syms) \o ReleaseAllReversed(syms))
            /\ HelperAnswered => StillPressed = {}

(***************************************************************************)
(* Properties of set_sensitivity on the compositor bridge (SpecInput).     *)
(***************************************************************************)
\* C31: set_sensitivity changes only the router's sensitivity factor: while
\* it is handled no helper process is started (none is spawned, no spawn is
\* attempted) and no command is sent to the backend.
C31_SetSensitivityLocalOnly ==
    (Done /\ last.type = "set_sensitivity")
        => /\ ~last.any_spawn
           /\ ~last.spawn_failed
           /\ last.send_ret = "none"

(***************************************************************************)
(* Names no map knows (SpecResolve).                                       *)
(***************************************************************************)
\* the direct backend's half of C32: _resolve_key and _resolve_modifier give
\* the lower-cased literal of a name their maps do not know
C32_DirectHalf ==
    (keysym # Unresolved /\ key \notin Chars) =>
        /\ Lower(key) \notin (DOMAIN MODIFIER_MAP \cup DOMAIN SPECIAL_KEYS)
               => x11_key = Lower(key)
        /\ Lower(key) \notin DOMAIN MODIFIER_MAP => x11_mod = Lower(key)

\* C32: a key name of more than one character that has no symbolic mapping
\* resolves to its lower-cased literal on the direct backend, as a key and
\* as a modifier, and on the compositor backend it resolves to a keysym the
\* helper emits: it is not dropped (keysym 0 is skipped by the helper).
C32_UnknownNameKept ==
    /\ C32_DirectHalf
    /\ (keysym # Unresolved /\ key \notin Chars
            /\ Lower(key) \notin DOMAIN KEYSYM_MAP) => keysym # 0

(***************************************************************************)
(* Properties of capture_frame (SpecCapture).                              *)
(***************************************************************************)
\* C33: a capture_frame call never raises because the backend failed: an
\* exception of the backend's capture makes _capture_image retry on the
\* direct path (except on the mss backend, which is the direct path), and
\* when that fails too, or is not tried, the result is None and
\* capture_frame returns the encoded placeholder image.
C33_CaptureNeverRaises ==
    cap_call # NoCapture =>
        /\ cap_call.result \in {"frame", "placeholder"}
        /\ (cap_call.primary = "raises" /\ cap_call.backend # "mss")
               => cap_call.retry # "none"
        /\ (cap_call.primary = "raises" /\ cap_call.retry # "image")
               => cap_call.result = "placeholder"
        /\ cap_call.result = "placeholder" => cap_call.primary = "raises"

\* the pipewire capture and the direct retry have both raised and the call
\* has returned the placeholder
C33_Witness ==
    /\ cap_call.backend = "pipewire"
    /\ cap_call.primary = "raises"
    /\ cap_call.retry = "raises"
    /\ cap_call.result = "placeholder"
    /\ pw_session_proc = None

(***************************************************************************)
(* Properties of a session stopped by its owner (SpecOwnerStop).           *)
(***************************************************************************)
\* what holds of C34: with the sequence started, a cleared _running lets no
\* further frame through: the generator goes from the yield or from a sleep
\* to the while condition and ends
C34_StoppedAfterStart ==
    [][ (~running /\ gpc \in {"top", "yielded"}) =>
            /\ gpc' \in {"top", "yielded", "done"}
            /\ gpc = "top" => gpc' # "yielded" ]_vars

\* C34: once stop() has been called on a capture session, no further frame
\* is yielded by its stream_frames sequence, whenever the call was made: at
\* a yield, in a sleep, or before the first iteration of the sequence.
C34_NoFrameAfterStop ==
    [][ stop_call.target = "capture" =>
            ~(gpc # "yielded" /\ gpc' = "yielded") ]_vars

(***************************************************************************)
(* Properties of the bridge's pipes (SpecPair).                            *)
(***************************************************************************)
\* C35: requests and responses stay paired: the response line a _send call
\* reads is the helper's response to the command this call wrote, also
\* after an earlier call has given up waiting and its command was answered
\* late.
C35_ResponsesPaired == got.read # 0 => got.read = got.wrote

\* what holds of C35: a call reads the response to its own command as long
\* as no response line was left unread when it wrote
C35_PairedWithoutBacklog ==
    [][ (PairRead /\ Len(inbox) + Len(outbox) = 1) =>
            got'.read = got'.wrote ]_vars

(***************************************************************************)
(* Properties of one start() of the input bridge (SpecStart).              *)
(***************************************************************************)
\* a start() is running inside the stop() of another start()
NestedStart == At("start", "check") /\ Len(stack) > 1

\* C36a: one start() spawns at most one helper: the start() that the stop()
\* of a failed handshake reaches through _send spawns nothing
C36_OneSpawn ==
    [][ (start_call.target = "bridge" /\ NestedStart) =>
            ~(StartSpawn \/ StartSpawnFails) ]_vars

\* C36b: a start() that has spawned a helper returns with the bridge ready
\* or without a process handle
C36_ReadyOrReleased ==
    []((StartReturned("bridge") /\ exc = None) => (ready \/ process = None))

\* C36c: start and stop do not re-enter each other up to the depth at which
\* the interpreter refuses a further call
C36_BoundedNesting == [](~Full)

\* C36: one start() of the input bridge spawns at most one helper process
\* and returns with the bridge ready or holding no process handle, whatever
\* the helper does, and start and stop never re-enter each other without
\* bound.
C36_StartOnce == C36_OneSpawn /\ C36_ReadyOrReleased /\ C36_BoundedNesting

(***************************************************************************)
(* The helper session's two fields (SpecStream).                           *)
(***************************************************************************)
\* C37: between the calls that start or stop the capture helper session the
\* capture object holds a helper process handle if and only if it holds a
\* PipeWire node id.
C37_HandleIffNode == (pw_session_proc # None) <=> (pw_node_id # None)

\* a streaming session whose helper was spawned and is gone again (a failed
\* handshake, or a failed gst-launch), with none of the two fields left
C37_Witness ==
    /\ backend = "pipewire" /\ pw_spawned
    /\ gpc = "top" /\ running
    /\ pw_session_proc = None /\ pw_node_id = None

\* ... and one whose helper is up, with both fields set
C37_SessionUp ==
    /\ backend = "pipewire" /\ gpc = "yielded"
    /\ pw_session_proc # None /\ pw_node_id = NodeId

(***************************************************************************)
(* type_text on the compositor path (SpecKeys).                            *)
(***************************************************************************)
\* one key press (press, release) per character, with the character's own
\* codepoint as the keysym
RECURSIVE OwnCodepointEvents(_)
OwnCodepointEvents(text) ==
    IF text = <<>> THEN <<>>
    ELSE KeyPressEvents(Ord[Head(text)]) \o OwnCodepointEvents(Tail(text))

\* the helper has answered ok to the type_text sent last
TypeTextDone ==
    KeyHandled /\ kcmd.type = "type_text" /\ kresult = "ok"

\* C38: type_text on the compositor path emits, in input order, one key
\* press per character, whose keysym is the character's own codepoint, so
\* that an upper-case letter and its lower-case letter give different
\* keysyms.
C38_OwnKeysyms == TypeTextDone => events = OwnCodepointEvents(kcmd.keys)

\* what holds: one press and release per character, in input order, with
\* the codepoint of the character or of its lower-case form
C38_InputOrder ==
    TypeTextDone =>
        /\ Len(events) = 2 * Len(kcmd.keys)
        /\ \A i \in 1..Len(kcmd.keys) :
             /\ events[2 * i - 1].state /\ ~events[2 * i].state
             /\ events[2 * i - 1].keysym = events[2 * i].keysym
             /\ events[2 * i].keysym \in
                    {Ord[kcmd.keys[i]], Ord[Lower(kcmd.keys[i])]}

(***************************************************************************)
(* The login lockout (SpecAuth).                                           *)
(***************************************************************************)
\* a login request has been answered
LoginAnswered == login.n > 0

\* C39: after max_login_attempts failed verifications in a row from one
\* client IP every further verification from it fails, the correct
\* password included, until lockout_duration_seconds have passed since the
\* last recorded failure; an attempt rejected during the lockout leaves the
\* recorded failures as they are, and a successful verification clears the
\* client's failure count.
C39_Lockout ==
    LoginAnswered =>
        /\ login.locked => (login.result # "ok" /\ login.kept)
        /\ login.result = "ok" => failed_attempts[login.ip].count = 0

\* what holds: the same for every client whose address is not the empty
\* string, and a lockout over, the correct password is accepted again
C39_LockoutOfNamedClient ==
    (LoginAnswered /\ login.ip # "") =>
        /\ login.locked => (login.result # "ok" /\ login.kept)
        /\ login.result = "ok" => failed_attempts[login.ip].count = 0
        /\ (~login.locked /\ login.correct) => login.result = "ok"

\* a locked-out client with a recorded address is refused the correct
\* password
C39_NamedClientRefused ==
    /\ LoginAnswered /\ login.ip # "" /\ login.locked /\ login.correct
    /\ login.result # "ok"

=============================================================================
